---- MODULE Spec2Model ----
(***************************************************************************)
(* Verification model of crywolf/codecrafters-kafka-rust.                  *)
(*                                                                         *)
(* Spec       : one TCP connection served by main.rs handle_connection,    *)
(*              at the level of the bytes read from and written to the     *)
(*              socket, together with the request handlers of protocol/    *)
(*              and logic/ invoked directly on decoded requests.           *)
(* FairSpec   : Spec in which handle_connection keeps being scheduled.     *)
(* ServerSpec : the accept loop of main.rs main with the tasks it spawns,  *)
(*              one per connection, each followed one iteration of         *)
(*              handle_connection at a time.                               *)
(***************************************************************************)
EXTENDS Integers, Sequences, FiniteSets, TLC

(***************************************************************************)
(* Bounds of the model.                                                    *)
(***************************************************************************)
\* number of frames the client sends on the connection
MaxRequests == 2
\* number of topic names in a DescribeTopicPartitions request, and of topics
\* in a Fetch request
MaxTopics == 2
\* number of records in the metadata log
MaxLogRecords == 3
\* number of records in the metadata log a Fetch request is served from
MaxFetchLogRecords == 2
\* number of bytes in a buffer handed to VarInt::deserialize
MaxVarIntLen == 12
\* number of bytes in the longest string handed to CompactString::serialize
MaxStringLen == 256
\* number of elements in the longest array handed to CompactArray::deserialize
MaxArrayItems == 50
\* number of records in a metadata log file given byte by byte
MaxFileRecords == 2
\* connections the server accepts, each served by a task of its own
MaxConnections == 2
\* requests a client sends on one of these connections
MaxTaskRequests == 1

(***************************************************************************)
(* Fixed-width big-endian integers (bytes::BufMut put_*, bytes::Buf get_*, *)
(* iN::to_be_bytes, iN::from_be_bytes).  TLC integers are 32 bits wide, so *)
(* the i32 conversions split off the sign bit instead of using 2^32.       *)
(***************************************************************************)
Byte == 0..255

I32_MAX == 2147483647

put_u8(v) == <<v % 256>>

put_i16(v) ==
    LET u == v % 65536
    IN  <<u \div 256, u % 256>>

put_i32(v) ==
    LET w == IF v < 0 THEN (v + I32_MAX) + 1 ELSE v
        top == (w \div 16777216) + (IF v < 0 THEN 128 ELSE 0)
    IN  <<top, (w \div 65536) % 256, (w \div 256) % 256, w % 256>>

\* the i16 held in bytes i, i+1 of b
get_i16(b, i) ==
    LET u == b[i] * 256 + b[i + 1]
    IN  IF u >= 32768 THEN u - 65536 ELSE u

\* the i32 held in bytes i .. i+3 of b
get_i32(b, i) ==
    LET low == ((b[i] % 128) * 16777216) + (b[i + 1] * 65536) + (b[i + 2] * 256) + b[i + 3]
    IN  IF b[i] >= 128 THEN (low - I32_MAX) - 1 ELSE low

Take(s, n) == SubSeq(s, 1, n)
Drop(s, n) == SubSeq(s, n + 1, Len(s))

(***************************************************************************)
(* The requests a client puts on the wire.  A request is kept as the       *)
(* client knows it (its header fields) and encoded to the bytes of a       *)
(* length-prefixed frame; the server only ever sees the bytes.             *)
(***************************************************************************)
\* null client_id (NULLABLE_STRING, length -1) and an empty tag buffer
HeaderTail == <<255, 255, 0>>

RequestBody(key, ver, corr, rest) ==
    put_i16(key) \o put_i16(ver) \o put_i32(corr) \o HeaderTail \o rest

Frame(body) == put_i32(Len(body)) \o body

\* (api_key, api_version) pairs a client may send: ApiVersions inside and
\* outside 0..=4, DescribeTopicPartitions, Fetch, and a key the server does
\* not know
RequestKinds ==
    {<<18, 0>>, <<18, 4>>, <<18, 5>>, <<18, -1>>,
     <<75, 0>>, <<75, 5>>, <<1, 16>>, <<2, 0>>}

CorrelationIds == {7, -2}

WellFormedRequests ==
    {[shape |-> "frame", key |-> k[1], ver |-> k[2], corr |-> c] :
        k \in RequestKinds, c \in CorrelationIds}

\* a frame whose body is shorter than the 8 bytes of api_key, api_version and
\* correlation_id; a frame whose size prefix is negative; a frame cut short
MalformedRequests ==
    {[shape |-> s, key |-> 18, ver |-> 4, corr |-> 0] :
        s \in {"short", "negative_size", "truncated"}}

ClientRequests == WellFormedRequests \cup MalformedRequests

Encode(r) ==
    CASE r.shape = "frame" -> Frame(RequestBody(r.key, r.ver, r.corr, <<>>))
      [] r.shape = "short" -> Frame(<<0, 18, 0>>)
      [] r.shape = "negative_size" -> <<255, 255, 255, 254, 0, 18>>
      [] r.shape = "truncated" -> <<0, 0, 0, 11, 0, 18, 0, 4>>

(***************************************************************************)
(* State of one connection.                                                *)
(***************************************************************************)
VARIABLES
    requests,      \* the requests the client has sent, in order
    stream,        \* bytes the client has sent and the server has not read yet
    clientClosed,  \* the client has shut its side down: reads hit end-of-file
    ioError,       \* the socket is broken (reset): every socket call fails
    pc,            \* position of handle_connection
    msg_size,      \* handle_connection: msg_size read from the size prefix
    msg,           \* handle_connection: msg, the body of the current request
    reads,         \* the request bodies read so far, in order
    written,       \* the responses passed to write_all so far, in order
    call,          \* the handler invoked directly, with its arguments
    ret,           \* what that handler returned
    main_pc,       \* position of main: in its accept loop, or returned
    tasks          \* the tasks main has spawned, each with its connection

connVars == <<requests, stream, clientClosed, ioError, pc, msg_size, msg, reads, written>>

libVars == <<call, ret>>

serverVars == <<main_pc, tasks>>

vars == <<connVars, libVars, serverVars>>

NoCall == [fn |-> "none"]
NoRet == [status |-> "none"]

ConnInit ==
    /\ requests = <<>>
    /\ stream = <<>>
    /\ clientClosed = FALSE
    /\ ioError = FALSE
    /\ pc = "peek"
    /\ msg_size = 0
    /\ msg = <<>>
    /\ reads = <<>>
    /\ written = <<>>

LibInit == call = NoCall /\ ret = NoRet

\* a slot of the task table main has not used yet
NoTask == [pc |-> "free", stream |-> <<>>, sent |-> 0, clientClosed |-> FALSE,
           ioError |-> FALSE, written |-> <<>>]

ServerInit ==
    /\ main_pc = "accept"
    /\ tasks = [c \in 1..MaxConnections |-> NoTask]

Init == ConnInit /\ LibInit /\ ServerInit

(***************************************************************************)
(* The client and the network.                                             *)
(***************************************************************************)
ClientSend ==
    /\ call = NoCall /\ UNCHANGED <<libVars, serverVars>>
    /\ ~clientClosed /\ ~ioError
    /\ Len(requests) < MaxRequests
    \* a frame cut short is the last thing a client sends
    /\ \A i \in DOMAIN requests : requests[i].shape # "truncated"
    /\ \E r \in ClientRequests :
          /\ requests' = Append(requests, r)
          /\ stream' = stream \o Encode(r)
    /\ UNCHANGED <<clientClosed, ioError, pc, msg_size, msg, reads, written>>

ClientClose ==
    /\ call = NoCall /\ UNCHANGED <<libVars, serverVars>>
    /\ ~clientClosed /\ ~ioError
    /\ clientClosed' = TRUE
    /\ UNCHANGED <<requests, stream, ioError, pc, msg_size, msg, reads, written>>

ConnReset ==
    /\ call = NoCall /\ UNCHANGED <<libVars, serverVars>>
    /\ ~ioError
    /\ pc \in {"peek", "read_size", "read_body", "respond"}
    /\ ioError' = TRUE
    /\ UNCHANGED <<requests, stream, clientClosed, pc, msg_size, msg, reads, written>>

(***************************************************************************)
(* main.rs handle_connection.                                              *)
(***************************************************************************)

\* only the upper end of the version range checked
ErrorCodeForAboveMaxOnly(request_api_key, request_api_version) ==
    IF request_api_key = 18 /\ request_api_version > 4 THEN 35 ELSE 0

\* main.rs:46-65: the error code of the response
ErrorCodeFor(request_api_key, request_api_version) ==
    IF request_api_key = 18 /\ ~(request_api_version \in 0..4) THEN 35 ELSE 0

\* main.rs:72-76: the api_keys bytes
ApiKeysBytes == put_i16(18) \o put_i16(0) \o put_i16(4)


\* the size counted over the whole buffer, its own four bytes included
SetMsgSizeOfWholeBuffer(resp) == put_i32(Len(resp)) \o Drop(resp, 4)

\* main.rs:94-99: the first four bytes become the length of the rest
SetMsgSize(resp) == put_i32(Len(resp) - 4) \o Drop(resp, 4)


\* the correlation id read where api_version starts
CorrelationIdMisread(m) == get_i32(m, 3)

\* main.rs:51: correlation_id follows api_key and api_version
CorrelationIdOf(m) == get_i32(m, 5)

\* main.rs:79-80: "HEADER 4 bytes", the correlation id alone, for every key
ResponseHeader(m) == put_i32(CorrelationIdOf(m))

\* main.rs:46-65, 72-76, 82-92: the body, error_code first, for every key
ResponseBody(m) ==
    LET request_api_key == get_i16(m, 1)
        request_api_version == get_i16(m, 3)
        error_code == ErrorCodeFor(request_api_key, request_api_version)
    IN  put_i16(error_code)
        \o (IF request_api_key = 18 THEN put_u8(1 + 1) \o ApiKeysBytes ELSE <<>>)
        \o put_u8(0) \o put_i32(0) \o put_u8(0)

\* main.rs:78-99: the response to the request body m (at least 8 bytes)
BuildResponse(m) == SetMsgSize(put_i32(0) \o ResponseHeader(m) \o ResponseBody(m))

\* main.rs:29: stream.peek(..).await.is_ok().  peek returns Ok(n) once bytes
\* are buffered and Ok(0) at end-of-file; it is an Err only on a broken socket
Peek ==
    /\ call = NoCall /\ UNCHANGED <<libVars, serverVars>>
    /\ pc = "peek"
    /\ \/ /\ ioError
          /\ pc' = "ok"
       \/ /\ ~ioError
          /\ stream # <<>> \/ clientClosed
          /\ pc' = "read_size"
    /\ UNCHANGED <<requests, stream, clientClosed, ioError, msg_size, msg, reads, written>>

\* main.rs:32-38: read_exact of the 4-byte size prefix
ReadSize ==
    /\ call = NoCall /\ UNCHANGED <<libVars, serverVars>>
    /\ pc = "read_size"
    /\ \/ /\ ioError \/ (clientClosed /\ Len(stream) < 4)
          /\ pc' = "err"
          /\ UNCHANGED <<stream, msg_size>>
       \/ /\ ~ioError
          /\ Len(stream) >= 4
          /\ msg_size' = get_i32(stream, 1)
          /\ stream' = Drop(stream, 4)
          /\ pc' = "read_body"
    /\ UNCHANGED <<requests, clientClosed, ioError, msg, reads, written>>

\* main.rs:38-44: a negative i32 cast to usize is above isize::MAX, and
\* BytesMut::with_capacity panics; otherwise read_exact of msg_size bytes
ReadBody ==
    /\ call = NoCall /\ UNCHANGED <<libVars, serverVars>>
    /\ pc = "read_body"
    /\ \/ /\ msg_size < 0
          /\ pc' = "panic"
          /\ UNCHANGED <<stream, msg, reads>>
       \/ /\ msg_size >= 0
          /\ ioError \/ (clientClosed /\ Len(stream) < msg_size)
          /\ pc' = "err"
          /\ UNCHANGED <<stream, msg, reads>>
       \/ /\ msg_size >= 0
          /\ ~ioError
          /\ Len(stream) >= msg_size
          /\ msg' = Take(stream, msg_size)
          /\ stream' = Drop(stream, msg_size)
          /\ reads' = Append(reads, Take(stream, msg_size))
          /\ pc' = "respond"
    /\ UNCHANGED <<requests, clientClosed, ioError, msg_size, written>>


\* Respond with the response written a second time
RespondTwice ==
    /\ call = NoCall /\ UNCHANGED <<libVars, serverVars>>
    /\ pc = "respond"
    /\ \/ /\ Len(msg) < 8
          /\ pc' = "panic"
          /\ UNCHANGED written
       \/ /\ Len(msg) >= 8
          /\ ioError
          /\ pc' = "err"
          /\ UNCHANGED written
       \/ /\ Len(msg) >= 8
          /\ ~ioError
          /\ written' = written \o <<BuildResponse(msg), BuildResponse(msg)>>
          /\ pc' = "peek"
    /\ UNCHANGED <<requests, stream, clientClosed, ioError, msg_size, msg, reads>>

\* Respond with the loop left after a response that carries an error code
RespondAndCloseOnError ==
    /\ call = NoCall /\ UNCHANGED <<libVars, serverVars>>
    /\ pc = "respond"
    /\ \/ /\ Len(msg) < 8
          /\ pc' = "panic"
          /\ UNCHANGED written
       \/ /\ Len(msg) >= 8
          /\ ioError
          /\ pc' = "err"
          /\ UNCHANGED written
       \/ /\ Len(msg) >= 8
          /\ ~ioError
          /\ written' = Append(written, BuildResponse(msg))
          /\ pc' = IF get_i16(BuildResponse(msg), 9) # 0 THEN "ok" ELSE "peek"
    /\ UNCHANGED <<requests, stream, clientClosed, ioError, msg_size, msg, reads>>

\* main.rs:46-101: decode the header fields (get_i16/get_i32 panic on a body
\* of fewer than 8 bytes), build the response and write_all it
Respond ==
    /\ call = NoCall /\ UNCHANGED <<libVars, serverVars>>
    /\ pc = "respond"
    /\ \/ /\ Len(msg) < 8
          /\ pc' = "panic"
          /\ UNCHANGED written
       \/ /\ Len(msg) >= 8
          /\ ioError
          /\ pc' = "err"
          /\ UNCHANGED written
       \/ /\ Len(msg) >= 8
          /\ ~ioError
          /\ written' = Append(written, BuildResponse(msg))
          /\ pc' = "peek"
    /\ UNCHANGED <<requests, stream, clientClosed, ioError, msg_size, msg, reads>>

handle_connection == Peek \/ ReadSize \/ ReadBody \/ Respond

(***************************************************************************)
(* protocol/types.rs: the wire types.  A decoder takes the unread bytes    *)
(* src and returns the value with the bytes left, or has panicked.  A      *)
(* String holds the bytes of its UTF-8 text (the names used are ASCII, on  *)
(* which from_utf8_lossy changes nothing); a UUID string is held as the 16 *)
(* bytes its 32 hex digits spell.                                          *)
(***************************************************************************)
Panicked == [ok |-> FALSE, val |-> <<>>, rest |-> <<>>]
Decoded(v, r) == [ok |-> TRUE, val |-> v, rest |-> r]

RECURSIVE Concat(_)
Concat(ss) == IF ss = <<>> THEN <<>> ELSE Head(ss) \o Concat(Tail(ss))

MAX_BYTES == 10

\* types.rs:216-242: the loop of VarInt::deserialize.  b0 is the last byte
\* read: as an i8 widened to i64 its bit 7 is set iff the byte is >= 128 and
\* its low 7 bits are the byte modulo 128
RECURSIVE VarIntLoop(_, _, _, _)
VarIntLoop(buf, b0, res, n_bytes) ==
    IF b0 >= 128 /\ n_bytes <= MAX_BYTES
    THEN IF Len(buf) = 0
         THEN Panicked
         ELSE LET b1 == Head(buf)
              IN  IF Len(buf) = 1 /\ b1 >= 128
                  THEN Panicked
                  ELSE VarIntLoop(Tail(buf), b1, res + ((b1 % 128) * 128), n_bytes + 1)
    ELSE Decoded(res, buf)

VarInt_deserialize(buf) ==
    IF Len(buf) = 0
    THEN Panicked
    ELSE VarIntLoop(Tail(buf), Head(buf), Head(buf) % 128, 1)

\* `len as u8 + 1` in wrapping arithmetic
LenPlusOne(n) == put_u8((n % 256) + 1)

CompactString_serialize(s) == LenPlusOne(Len(s)) \o s

CompactString_deserialize(src) ==
    LET len == VarInt_deserialize(src)
        string_len == IF len.val > 1 THEN len.val - 1 ELSE 0
    IN  IF ~len.ok THEN Panicked
        ELSE IF string_len > Len(len.rest) THEN Panicked
        ELSE Decoded(Take(len.rest, string_len), Drop(len.rest, string_len))

NullableString_deserialize_NegativeIsNull(src) ==
    IF Len(src) < 2 THEN Panicked
    ELSE LET len == get_i16(src, 1)
             rest == Drop(src, 2)
         IN  IF len < 0 THEN Decoded(<<>>, rest)
             ELSE IF len > Len(rest) THEN Panicked
             ELSE Decoded(Take(rest, len), Drop(rest, len))

\* types.rs:46-54: a length other than -1 is taken as usize, so a negative
\* one is beyond every buffer and the slice panics, as does one past the end
NullableString_deserialize(src) ==
    IF Len(src) < 2 THEN Panicked
    ELSE LET len == get_i16(src, 1)
             rest == Drop(src, 2)
         IN  IF len = -1 THEN Decoded(<<>>, rest)
             ELSE IF len < 0 \/ len > Len(rest) THEN Panicked
             ELSE Decoded(Take(rest, len), Drop(rest, len))

\* CompactArray::serialize over the serialized items
CompactArray_serialize(items) == LenPlusOne(Len(items)) \o Concat(items)

\* CompactArray::deserialize::<_, CompactString>: items_len strings in a row
RECURSIVE CompactStrings(_, _, _)
CompactStrings(src, items_len, items) ==
    IF items_len = 0 THEN Decoded(items, src)
    ELSE LET item == CompactString_deserialize(src)
         IN  IF ~item.ok THEN Panicked
             ELSE CompactStrings(item.rest, items_len - 1, Append(items, item.val))


\* the length read taken as the number of items, the null array apart
CompactArray_deserialize_CompactString_LenAsCount(src) ==
    LET len == VarInt_deserialize(src)
        items_len == IF len.val > 1 THEN len.val ELSE 0
    IN  IF ~len.ok THEN Panicked ELSE CompactStrings(len.rest, items_len, <<>>)

CompactArray_deserialize_CompactString(src) ==
    LET len == VarInt_deserialize(src)
        items_len == IF len.val > 1 THEN len.val - 1 ELSE 0
    IN  IF ~len.ok THEN Panicked ELSE CompactStrings(len.rest, items_len, <<>>)

\* the u32 held in bytes i .. i+3 of b, a number below 2^31
get_u32(b, i) == (b[i] * 16777216) + (b[i + 1] * 65536) + (b[i + 2] * 256) + b[i + 3]

\* CompactArray::deserialize::<u32, _>: items_len times src.get_u32()
RECURSIVE U32Items(_, _, _)
U32Items(src, items_len, items) ==
    IF items_len = 0 THEN Decoded(items, src)
    ELSE IF Len(src) < 4 THEN Panicked
    ELSE U32Items(Drop(src, 4), items_len - 1, Append(items, get_u32(src, 1)))

CompactArray_deserialize_u32(src) ==
    LET len == VarInt_deserialize(src)
        items_len == IF len.val > 1 THEN len.val - 1 ELSE 0
    IN  IF ~len.ok THEN Panicked ELSE U32Items(len.rest, items_len, <<>>)

Uuid_serialize(s) == s

TaggedFields_serialize == put_u8(0)

ErrorCode_serialize(error_code) == put_i16(error_code)

(***************************************************************************)
(* protocol/request.rs, protocol/response.rs: the headers.                 *)
(***************************************************************************)
HeaderV2_from_bytes(src) ==
    IF Len(src) < 8 THEN Panicked
    ELSE LET client_id == NullableString_deserialize(Drop(src, 8))
         IN  IF ~client_id.ok \/ Len(client_id.rest) < 1 THEN Panicked
             ELSE Decoded([request_api_key |-> get_i16(src, 1),
                           request_api_version |-> get_i16(src, 3),
                           correlation_id |-> get_i32(src, 5),
                           client_id |-> client_id.val],
                          Tail(client_id.rest))

HeaderV0_serialize(correlation_id) == put_i32(correlation_id)

HeaderV1_new(correlation_id) ==
    [correlation_id |-> correlation_id, tag_buffer |-> 0, bytes |-> <<>>]


\* appends to the header's own buffer and returns that buffer
HeaderV1_serialize(header) ==
    [header EXCEPT !.bytes = @ \o put_i32(header.correlation_id) \o put_u8(header.tag_buffer)]

(***************************************************************************)
(* protocol/response/api_versions.rs, protocol/request/api_versions.rs.    *)
(***************************************************************************)
ApiVersionsApiKeys_serialize(k) ==
    put_i16(k.api_key) \o put_i16(k.min_version) \o put_i16(k.max_version) \o put_u8(0)

api_keys_vec ==
    <<[api_key |-> 18, min_version |-> 0, max_version |-> 4],
      [api_key |-> 75, min_version |-> 0, max_version |-> 0],
      [api_key |-> 1, min_version |-> 0, max_version |-> 16]>>

UnsupportedVersionCheck(request_api_version) ==
    IF request_api_version \in 0..4 THEN 0 ELSE 35

ApiVersionsResponseV3_new(correlation_id, request_api_version) ==
    LET error_code == UnsupportedVersionCheck(request_api_version)
    IN  [kind |-> "ApiVersions",
         correlation_id |-> correlation_id,
         error_code |-> error_code,
         api_keys_vec |-> api_keys_vec,
         throttle_time_ms |-> 0,
         bytes |-> HeaderV0_serialize(correlation_id)
                   \o put_i16(error_code)
                   \o CompactArray_serialize([k \in DOMAIN api_keys_vec |-> ApiVersionsApiKeys_serialize(api_keys_vec[k])])
                   \o put_i32(0)
                   \o put_u8(0)]

ApiVersionsRequest_process(header) ==
    ApiVersionsResponseV3_new(header.correlation_id, header.request_api_version)

(***************************************************************************)
(* protocol/response/describe_topic_partitions.rs.  A u32 is held as a     *)
(* number below 2^31.                                                      *)
(***************************************************************************)
put_u32(v) == <<v \div 16777216, (v \div 65536) % 256, (v \div 256) % 256, v % 256>>

\* Partition::new with the eligible leader and the offline replicas exchanged
Partition_new_exchanged(error_code, partition_index, leader_id, leader_epoch, replicas, in_sync_replicas, eligible_leader_replicas, last_known_eligible_leader_replicas, off_line_replicas) ==
    [error_code |-> error_code,
     partition_index |-> partition_index,
     leader_id |-> leader_id,
     leader_epoch |-> leader_epoch,
     replicas |-> replicas,
     in_sync_replicas |-> in_sync_replicas,
     eligible_leader_replicas |-> off_line_replicas,
     last_known_eligible_leader_replicas |-> last_known_eligible_leader_replicas,
     off_line_replicas |-> eligible_leader_replicas]

Partition_new(error_code, partition_index, leader_id, leader_epoch, replicas, in_sync_replicas, eligible_leader_replicas, last_known_eligible_leader_replicas, off_line_replicas) ==
    [error_code |-> error_code,
     partition_index |-> partition_index,
     leader_id |-> leader_id,
     leader_epoch |-> leader_epoch,
     replicas |-> replicas,
     in_sync_replicas |-> in_sync_replicas,
     eligible_leader_replicas |-> eligible_leader_replicas,
     last_known_eligible_leader_replicas |-> last_known_eligible_leader_replicas,
     off_line_replicas |-> off_line_replicas]

Partition_serialize(p) ==
    ErrorCode_serialize(p.error_code)
    \o put_u32(p.partition_index)
    \o put_u32(p.leader_id)
    \o put_u32(p.leader_epoch)
    \o CompactArray_serialize([k \in DOMAIN p.replicas |-> put_u32(p.replicas[k])])
    \o CompactArray_serialize([k \in DOMAIN p.in_sync_replicas |-> put_u32(p.in_sync_replicas[k])])
    \o CompactArray_serialize([k \in DOMAIN p.eligible_leader_replicas |-> put_u32(p.eligible_leader_replicas[k])])
    \o CompactArray_serialize([k \in DOMAIN p.last_known_eligible_leader_replicas |-> put_u32(p.last_known_eligible_leader_replicas[k])])
    \o CompactArray_serialize([k \in DOMAIN p.off_line_replicas |-> put_u32(p.off_line_replicas[k])])
    \o TaggedFields_serialize

Topic_serialize(t) ==
    ErrorCode_serialize(t.error_code)
    \o CompactString_serialize(t.name)
    \o Uuid_serialize(t.topic_id)
    \o put_u8(IF t.is_internal THEN 1 ELSE 0)
    \o CompactArray_serialize([k \in DOMAIN t.partitions |-> Partition_serialize(t.partitions[k])])
    \o put_i32(t.topic_authorized_operations)
    \o TaggedFields_serialize

DescribeTopicPartitionsResponseV0_new(correlation_id, topics) ==
    LET header == HeaderV1_serialize(HeaderV1_new(correlation_id))
    IN  [kind |-> "DescribeTopicPartitions",
         correlation_id |-> correlation_id,
         throttle_time_ms |-> 0,
         topics |-> topics,
         next_cursor |-> 255,
         bytes |-> header.bytes
                   \o put_i32(0)
                   \o CompactArray_serialize([k \in DOMAIN topics |-> Topic_serialize(topics[k])])
                   \o put_u8(255)
                   \o put_u8(0)]

(***************************************************************************)
(* protocol/request/describe_topic_partitions.rs.                          *)
(***************************************************************************)
UuidOf(n) == [i \in 1..16 |-> IF i = 16 THEN n ELSE 0]

DEFAULT_UNKNOWN_TOPIC_UUID == UuidOf(0)

TOPIC_AUTHORIZED_OPERATIONS == 223

DescribeTopicPartitionsRequestV0_from_bytes(src) ==
    LET header == HeaderV2_from_bytes(src)
        topics == CompactArray_deserialize_CompactString(header.rest)
    IN  IF ~header.ok THEN Panicked
        ELSE IF ~topics.ok \/ Len(topics.rest) < 6 THEN Panicked
        ELSE Decoded([header |-> header.val,
                      topics |-> topics.val,
                      response_partition_limit |-> get_i32(topics.rest, 1),
                      cursor |-> topics.rest[5]],
                     Drop(topics.rest, 6))

UnknownTopic(name, topic_id) ==
    [error_code |-> 3,
     name |-> name,
     topic_id |-> topic_id,
     is_internal |-> FALSE,
     partitions |-> <<>>,
     topic_authorized_operations |-> TOPIC_AUTHORIZED_OPERATIONS]

Failed(why) == [status |-> "Err", error |-> why, resp |-> [kind |-> "none", bytes |-> <<>>]]
Returned(resp) == [status |-> "Ok", error |-> "", resp |-> resp]
Aborted == [status |-> "Panic", error |-> "", resp |-> [kind |-> "none", bytes |-> <<>>]]

\* describe_topic_partitions.rs:39-74: answers the first requested name only
DescribeTopicPartitionsRequestV0_process(req) ==
    IF req.topics = <<>>
    THEN Failed("missing topic name")
    ELSE Returned(DescribeTopicPartitionsResponseV0_new(
             req.header.correlation_id,
             <<UnknownTopic(Head(req.topics), DEFAULT_UNKNOWN_TOPIC_UUID)>>))

(***************************************************************************)
(* logic.rs process: the dispatcher.  ApiKey has the three variants Fetch, *)
(* ApiVersions and DescribeTopicPartitions; the match has arms for the     *)
(* last two only.                                                          *)
(***************************************************************************)
ApiKey_try_from(request_api_key) == request_api_key \in {1, 18, 75}

logic_process(request_api_key, m) ==
    IF ~ApiKey_try_from(request_api_key) THEN Failed("UnsupportedApiKeyError")
    ELSE CASE request_api_key = 18 ->
                LET req == HeaderV2_from_bytes(m)
                IN  IF ~req.ok THEN Aborted
                    ELSE Returned(ApiVersionsRequest_process(req.val))
           [] request_api_key = 75 ->
                LET req == DescribeTopicPartitionsRequestV0_from_bytes(m)
                IN  IF ~req.ok THEN Aborted
                    ELSE DescribeTopicPartitionsRequestV0_process(req.val)
           [] OTHER -> Failed("no match arm")

\* protocol.rs:33-55
ResponseMessage_from_bytes(src) ==
    LET bytes == put_i32(0) \o src
        resp_size == Len(bytes) - 4
    IN  put_i32(resp_size) \o Drop(bytes, 4)

(***************************************************************************)
(* logic/topic_partitions.rs process, on the record batches parsed from    *)
(* the metadata log.  A batch is the sequence of its records' values.      *)
(***************************************************************************)
TopicValue(topic_name, topic_id) ==
    [type |-> "Topic", topic_name |-> topic_name, topic_id |-> topic_id]

PartitionValue(partition_id, topic_id, replicas, in_sync_replicas, removing_replicas, adding_replicas, leader_id, leader_epoch) ==
    [type |-> "Partition",
     partition_id |-> partition_id,
     topic_id |-> topic_id,
     replicas |-> replicas,
     in_sync_replicas |-> in_sync_replicas,
     removing_replicas |-> removing_replicas,
     adding_replicas |-> adding_replicas,
     leader_id |-> leader_id,
     leader_epoch |-> leader_epoch]

FeatureLevelValue(name, level) == [type |-> "FeatureLevel", name |-> name, level |-> level]

\* topic_partitions.rs:55-83: the records of one batch, for one requested
\* name; st holds topic_id, topic_error_code and partitions
RECURSIVE ScanRecords(_, _, _)
ScanRecords(records, topic_name, st) ==
    IF records = <<>> THEN st
    ELSE LET rec == Head(records)
             st1 == IF rec.type = "Topic" /\ rec.topic_name = topic_name
                    THEN [st EXCEPT !.topic_id = rec.topic_id, !.topic_error_code = 0]
                    ELSE st
             st2 == IF rec.type = "Partition" /\ rec.topic_id = st1.topic_id
                    THEN [st1 EXCEPT !.partitions =
                            Append(@, Partition_new(0, rec.partition_id, rec.leader_id,
                                                    rec.leader_epoch, rec.replicas,
                                                    rec.in_sync_replicas, rec.adding_replicas,
                                                    <<>>, rec.removing_replicas))]
                    ELSE st1
         IN  ScanRecords(Tail(records), topic_name, st2)

\* topic_partitions.rs:50-96: the requested names, for one batch; st holds
\* topic_id, topic_error_code and topics
RECURSIVE ScanNames(_, _, _)
ScanNames(names, records, st) ==
    IF names = <<>> THEN st
    ELSE LET r == ScanRecords(records, Head(names),
                              [topic_id |-> DEFAULT_UNKNOWN_TOPIC_UUID,
                               topic_error_code |-> st.topic_error_code,
                               partitions |-> <<>>])
             topic == [error_code |-> r.topic_error_code,
                       name |-> Head(names),
                       topic_id |-> r.topic_id,
                       is_internal |-> FALSE,
                       partitions |-> r.partitions,
                       topic_authorized_operations |-> TOPIC_AUTHORIZED_OPERATIONS]
         IN  ScanNames(Tail(names), records,
                       [topic_id |-> r.topic_id,
                        topic_error_code |-> r.topic_error_code,
                        topics |-> IF r.partitions # <<>>
                                   THEN Append(st.topics, topic)
                                   ELSE st.topics])

\* topic_partitions.rs:47-97: the batches of the log, in file order
RECURSIVE ScanBatches(_, _, _)
ScanBatches(batches, names, st) ==
    IF batches = <<>> THEN st
    ELSE ScanBatches(Tail(batches), names, ScanNames(names, Head(batches), st))

\* topic_partitions.rs:99-117: an error topic for each requested name that
\* no topic of the response carries yet
RECURSIVE AddErrorTopics(_, _, _)
AddErrorTopics(names, topic_id, topics) ==
    IF names = <<>> THEN topics
    ELSE LET topic_found == \E i \in DOMAIN topics : topics[i].name = Head(names)
         IN  AddErrorTopics(Tail(names), topic_id,
                            IF topic_found THEN topics
                            ELSE Append(topics, UnknownTopic(Head(names), topic_id)))

topic_partitions_process(req, batches) ==
    LET st == ScanBatches(batches, req.topics,
                          [topic_id |-> DEFAULT_UNKNOWN_TOPIC_UUID,
                           topic_error_code |-> 3,
                           topics |-> <<>>])
    IN  Returned(DescribeTopicPartitionsResponseV0_new(
            req.header.correlation_id,
            AddErrorTopics(req.topics, st.topic_id, st.topics)))

(***************************************************************************)
(* protocol/response/fetch.rs, and FetchRequestV16::process of             *)
(* protocol/request/fetch.rs.                                              *)
(***************************************************************************)
\* an i64 inside the i32 range
put_i64(v) == (IF v < 0 THEN <<255, 255, 255, 255>> ELSE <<0, 0, 0, 0>>) \o put_i32(v)

UnknownTopicId == 100

TopicPartition_serialize(p) ==
    put_u32(p.partition_index)
    \o ErrorCode_serialize(p.error_code)
    \o put_i64(p.high_watermark)
    \o put_i64(p.last_stable_offset)
    \o put_i64(p.log_start_offset)
    \o CompactArray_serialize(p.aborted_transactions)
    \o put_i32(p.preferred_read_replica)
    \o CompactArray_serialize(p.record_batches)
    \o TaggedFields_serialize

TopicResponse_serialize(t) ==
    Uuid_serialize(t.topic_id)
    \o CompactArray_serialize([k \in DOMAIN t.partitions |-> TopicPartition_serialize(t.partitions[k])])
    \o TaggedFields_serialize

FetchResponseV16_new(correlation_id, session_id, responses) ==
    LET header == HeaderV1_serialize(HeaderV1_new(correlation_id))
    IN  [kind |-> "Fetch",
         correlation_id |-> correlation_id,
         throttle_time_ms |-> 0,
         error_code |-> 0,
         session_id |-> session_id,
         responses |-> responses,
         bytes |-> header.bytes
                   \o put_i32(0)
                   \o ErrorCode_serialize(0)
                   \o put_u32(session_id)
                   \o CompactArray_serialize([k \in DOMAIN responses |-> TopicResponse_serialize(responses[k])])
                   \o TaggedFields_serialize]

TopicPartition(partition_index, error_code, record_batches) ==
    [partition_index |-> partition_index,
     error_code |-> error_code,
     high_watermark |-> 0,
     last_stable_offset |-> 0,
     log_start_offset |-> 0,
     aborted_transactions |-> <<>>,
     preferred_read_replica |-> 0,
     record_batches |-> record_batches]

\* fetch.rs:65-94: answers the first requested topic only, as unknown
FetchRequestV16_process(req) ==
    LET responses ==
            IF req.topics = <<>> THEN <<>>
            ELSE <<[topic_id |-> Head(req.topics).topic_id,
                    partitions |-> <<TopicPartition(0, UnknownTopicId, <<>>)>>]>>
    IN  Returned(FetchResponseV16_new(req.header.correlation_id, req.session_id, responses))

(***************************************************************************)
(* logic/fetch_responses.rs process, on the record batches parsed from the *)
(* metadata log (protocol/record_batch.rs).                                *)
(***************************************************************************)
\* the bytes one record takes in the file, reduced to a type byte and the
\* last byte of its topic id
RecordBytes(rec) ==
    IF rec.type = "Topic" THEN <<2, rec.topic_id[16]>>
    ELSE IF rec.type = "Partition" THEN <<3, rec.topic_id[16], rec.partition_id>>
    ELSE <<12>>

\* the byte range of a batch in the file: its record count, then its records
RawBytes(batch) == put_u8(Len(batch)) \o Concat([k \in DOMAIN batch |-> RecordBytes(batch[k])])

\* record_batch.rs:34-41: the first batch holding a TopicValue with the
\* topic_id (its position, 0 for None)
batch_for_topic(batches, topic_id) ==
    LET HasTopic(i) == \E j \in DOMAIN batches[i] :
                          batches[i][j].type = "Topic" /\ batches[i][j].topic_id = topic_id
    IN  IF \E i \in DOMAIN batches : HasTopic(i)
        THEN CHOOSE i \in DOMAIN batches : HasTopic(i) /\ \A h \in 1..(i - 1) : ~HasTopic(h)
        ELSE 0

\* the raw bytes of that batch; the partition_id plays no part
raw_batch_for_topic(batches, topic_id, partition_id) ==
    LET i == batch_for_topic(batches, topic_id)
    IN  IF i = 0 THEN [some |-> FALSE, bytes |-> <<>>]
        ELSE [some |-> TRUE, bytes |-> RawBytes(batches[i])]

\* fetch_responses.rs:35-66: the requested partitions of one topic;
\* error_code is the topic's, kept from one partition to the next
RECURSIVE FetchPartitions(_, _, _, _, _)
FetchPartitions(requested, topic_id, batches, error_code, partitions) ==
    IF requested = <<>> THEN partitions
    ELSE LET raw_batch == raw_batch_for_topic(batches, topic_id, Head(requested).partition)
             code == IF raw_batch.some THEN 0 ELSE error_code
             partition_record_batches == IF raw_batch.some THEN <<raw_batch.bytes>> ELSE <<>>
         IN  FetchPartitions(Tail(requested), topic_id, batches, code,
                             Append(partitions, TopicPartition(0, code, partition_record_batches)))

\* fetch_responses.rs:27-70: one TopicResponse per requested topic
FetchTopicResponse(topic_request, batches) ==
    [topic_id |-> topic_request.topic_id,
     partitions |-> FetchPartitions(topic_request.partitions, topic_request.topic_id,
                                    batches, UnknownTopicId, <<>>)]

fetch_responses_process(req, batches) ==
    IF req.topics = <<>>
    THEN Returned(FetchResponseV16_new(req.header.correlation_id, req.session_id, <<>>))
    ELSE Returned(FetchResponseV16_new(
             req.header.correlation_id, req.session_id,
             [k \in DOMAIN req.topics |-> FetchTopicResponse(req.topics[k], batches)]))

(***************************************************************************)
(* protocol/record_batch.rs: the reader of the metadata log file, on the   *)
(* bytes of the file.  logic/topic_partitions.rs holds the same            *)
(* RecordBatch::from_bytes, Record::from_bytes and RecordValue::from_bytes *)
(* a second time.  Of a record only its value is kept, of a batch its      *)
(* batch_length, its records and the number of bytes the reader took.      *)
(***************************************************************************)
\* types.rs:152-158
CompactNullableBytes_deserialize(src) ==
    LET len == VarInt_deserialize(src)
        bytes_len == IF len.val > 1 THEN len.val - 1 ELSE 0
    IN  IF ~len.ok THEN Panicked
        ELSE IF bytes_len > Len(len.rest) THEN Panicked
        ELSE Decoded(Take(len.rest, bytes_len), Drop(len.rest, bytes_len))

\* CompactArray::deserialize::<String, PartitionValue>: items_len UUIDs
RECURSIVE UuidItems(_, _, _)
UuidItems(src, items_len, items) ==
    IF items_len = 0 THEN Decoded(items, src)
    ELSE IF Len(src) < 16 THEN Panicked
    ELSE UuidItems(Drop(src, 16), items_len - 1, Append(items, Take(src, 16)))

CompactArray_deserialize_Uuid(src) ==
    LET len == VarInt_deserialize(src)
        items_len == IF len.val > 1 THEN len.val - 1 ELSE 0
    IN  IF ~len.ok THEN Panicked ELSE UuidItems(len.rest, items_len, <<>>)

\* one field read off src, by its wire type (the get_* of bytes panic on a
\* buffer that is too short)
ReadField(type, src) ==
    CASE type = "u8" -> IF Len(src) < 1 THEN Panicked ELSE Decoded(src[1], Tail(src))
      [] type = "u16" -> IF Len(src) < 2 THEN Panicked
                         ELSE Decoded((src[1] * 256) + src[2], Drop(src, 2))
      [] type = "u32" -> IF Len(src) < 4 THEN Panicked
                         ELSE Decoded(get_u32(src, 1), Drop(src, 4))
      [] type = "uuid" -> IF Len(src) < 16 THEN Panicked
                          ELSE Decoded(Take(src, 16), Drop(src, 16))
      [] type = "varint" -> VarInt_deserialize(src)
      [] type = "compact_string" -> CompactString_deserialize(src)
      [] type = "compact_nullable_bytes" -> CompactNullableBytes_deserialize(src)
      [] type = "compact_array_u32" -> CompactArray_deserialize_u32(src)
      [] type = "compact_array_uuid" -> CompactArray_deserialize_Uuid(src)

\* the fields of layout read off src one after the other, as the statements
\* of a from_bytes read them
RECURSIVE ReadFields(_, _, _)
RECURSIVE ReadFieldsAfter(_, _, _)
ReadFields(layout, src, vals) ==
    IF layout = <<>> THEN Decoded(vals, src)
    ELSE ReadFieldsAfter(Tail(layout), ReadField(Head(layout), src), vals)

ReadFieldsAfter(layout, field, vals) ==
    IF ~field.ok THEN Panicked
    ELSE ReadFields(layout, field.rest, Append(vals, field.val))

\* record_batch.rs:253-266: the Topic arm: version (asserted 0), topic_name,
\* topic_id, tagged_fields_count (asserted 0)
TopicValue_new(fields) ==
    IF ~fields.ok THEN Panicked
    ELSE IF fields.val[1] # 0 \/ fields.val[4] # 0 THEN Panicked
    ELSE Decoded(TopicValue(fields.val[2], fields.val[3]), fields.rest)

TopicValue_from_bytes(src) ==
    TopicValue_new(ReadFields(<<"u8", "compact_string", "uuid", "varint">>, src, <<>>))

\* record_batch.rs:267-300: the Partition arm: version (asserted 1),
\* partition_id, topic_id, replicas, in_sync_replicas, removing_replicas,
\* adding_replicas, leader_id, leader_epoch, partition_epoch, directories,
\* tagged_fields_count (asserted 0)
PartitionValue_new(fields) ==
    IF ~fields.ok THEN Panicked
    ELSE IF fields.val[1] # 1 \/ fields.val[12] # 0 THEN Panicked
    ELSE Decoded(PartitionValue(fields.val[2], fields.val[3], fields.val[4], fields.val[5],
                                fields.val[6], fields.val[7], fields.val[8], fields.val[9]),
                 fields.rest)

PartitionValue_from_bytes(src) ==
    PartitionValue_new(ReadFields(<<"u8", "u32", "uuid", "compact_array_u32", "compact_array_u32", "compact_array_u32", "compact_array_u32", "u32", "u32", "u32", "compact_array_uuid", "varint">>, src, <<>>))

\* record_batch.rs:302-311: the FeatureLevel arm: version (asserted 0), name,
\* level, tagged_fields_count (asserted 0)
FeatureLevelValue_new(fields) ==
    IF ~fields.ok THEN Panicked
    ELSE IF fields.val[1] # 0 \/ fields.val[4] # 0 THEN Panicked
    ELSE Decoded(FeatureLevelValue(fields.val[2], fields.val[3]), fields.rest)

FeatureLevelValue_from_bytes(src) ==
    FeatureLevelValue_new(ReadFields(<<"u8", "compact_string", "u16", "varint">>, src, <<>>))

\* RecordValue::from_bytes with the frame version not looked at
RecordValue_from_bytes_AnyFrameVersion(src) ==
    IF Len(src) < 2 THEN Panicked
    ELSE CASE src[2] = 2 -> TopicValue_from_bytes(Drop(src, 2))
           [] src[2] = 3 -> PartitionValue_from_bytes(Drop(src, 2))
           [] src[2] = 12 -> FeatureLevelValue_from_bytes(Drop(src, 2))
           [] OTHER -> Panicked

\* record_batch.rs:245-316: assert_eq!(frame_version, 1), then the match on
\* record_type with unimplemented!() for every other type
RecordValue_from_bytes(src) ==
    IF Len(src) < 2 \/ src[1] # 1 THEN Panicked
    ELSE CASE src[2] = 2 -> TopicValue_from_bytes(Drop(src, 2))
           [] src[2] = 3 -> PartitionValue_from_bytes(Drop(src, 2))
           [] src[2] = 12 -> FeatureLevelValue_from_bytes(Drop(src, 2))
           [] OTHER -> Panicked

\* record_batch.rs:163-164: the headers array is read with an element decoder
\* that takes no bytes, so only its length is consumed
Record_headers(value, headers) ==
    IF ~headers.ok THEN Panicked ELSE Decoded(value, headers.rest)

\* record_batch.rs:162-164: the value, then the headers
Record_value(value) ==
    IF ~value.ok THEN Panicked
    ELSE Record_headers(value.val, VarInt_deserialize(value.rest))

\* record_batch.rs:156-162: length, attributes, timestamp_delta,
\* offset_delta, key and value_length, then the value of value_length.rest
Record_fields(fields) ==
    IF ~fields.ok THEN Panicked ELSE Record_value(RecordValue_from_bytes(fields.rest))

\* record_batch.rs:154-176
Record_from_bytes(src) ==
    Record_fields(ReadFields(<<"varint", "u8", "varint", "varint", "compact_nullable_bytes", "varint">>, src, <<>>))

\* NullableBytes::deserialize::<Record, RecordBatch> (types.rs:125-135)
RECURSIVE Records(_, _, _)
RECURSIVE RecordsAfter(_, _, _)
Records(src, items_len, items) ==
    IF items_len = 0 THEN Decoded(items, src)
    ELSE RecordsAfter(Record_from_bytes(src), items_len, items)

RecordsAfter(item, items_len, items) ==
    IF ~item.ok THEN Panicked
    ELSE Records(item.rest, items_len - 1, Append(items, item.val))

\* the bytes of a batch before its records: base_offset, batch_length and the
\* fields up to base_sequence, and the number of records
BatchPrefix == 8 + 4 + 4 + 1 + 4 + 2 + 4 + 8 + 8 + 8 + 2 + 4 + 4

\* record_batch.rs:109-124: the batch with its records
RecordBatch_new(src, records) ==
    IF ~records.ok THEN Panicked
    ELSE Decoded([batch_length |-> get_i32(src, 9),
                  records |-> records.val,
                  consumed |-> Len(src) - Len(records.rest)],
                 records.rest)

\* types.rs:126-127: the number of records, -1 for none
RecordBatch_records(src, len) ==
    IF len < -1 THEN Panicked
    ELSE RecordBatch_new(src, Records(Drop(src, BatchPrefix), IF len = -1 THEN 0 ELSE len, <<>>))

\* record_batch.rs:94-125: batch_length is stored and not used
RecordBatch_from_bytes(src) ==
    IF Len(src) < BatchPrefix THEN Panicked
    ELSE RecordBatch_records(src, get_i32(src, BatchPrefix - 3))

\* record_batch.rs:21-26: while data.remaining() > 0
RECURSIVE ReadBatches(_, _)
RECURSIVE ReadBatchesAfter(_, _)
ReadBatches(data, batches) ==
    IF Len(data) = 0 THEN Decoded(batches, data)
    ELSE ReadBatchesAfter(RecordBatch_from_bytes(data), batches)

ReadBatchesAfter(record_batch, batches) ==
    IF ~record_batch.ok THEN Panicked
    ELSE ReadBatches(record_batch.rest, Append(batches, record_batch.val))

\* record_batch.rs:15-27, on the bytes std::fs::read returned
RecordBatches_from_file(file_bytes) == ReadBatches(file_bytes, <<>>)

\* the records of the batches read, as the handlers scan them
RecordsOf(batches) == [k \in DOMAIN batches |-> batches[k].records]

\* topic_partitions.rs:17-123: process on the bytes of the file; the batches
\* are parsed one by one between the scans, and a panic in any of them ends
\* the call
topic_partitions_process_file(req, file_bytes) ==
    LET record_batches == RecordBatches_from_file(file_bytes)
    IN  IF ~record_batches.ok THEN Aborted
        ELSE topic_partitions_process(req, RecordsOf(record_batches.val))

\* fetch_responses.rs:14-78: process on the bytes of the file, which are read
\* and parsed for every requested partition
fetch_responses_process_file(req, file_bytes) ==
    LET record_batches == RecordBatches_from_file(file_bytes)
        reads_file == \E k \in DOMAIN req.topics : req.topics[k].partitions # <<>>
    IN  IF reads_file /\ ~record_batches.ok THEN Aborted
        ELSE fetch_responses_process(req, IF reads_file THEN RecordsOf(record_batches.val)
                                          ELSE <<>>)

(***************************************************************************)
(* The handlers invoked directly, on the requests and metadata logs below. *)
(***************************************************************************)
SeqsUpTo(S, n) == UNION {[1..k -> S] : k \in 0..n}

(***************************************************************************)
(* The metadata log file as a broker writes it (the layout documented in   *)
(* record_batch.rs), and files that depart from it in one record.          *)
(***************************************************************************)
\* the unsigned varint that holds n: seven bits per byte, the lowest first,
\* the top bit set on every byte but the last
RECURSIVE UnsignedVarInt(_)
UnsignedVarInt(n) ==
    IF n < 128 THEN <<n>> ELSE <<128 + (n % 128)>> \o UnsignedVarInt(n \div 128)

\* the signed varint of the record format, for n >= 0
ZigZagVarInt(n) == UnsignedVarInt(2 * n)

\* how one record of a file departs from the layout: not at all; in the
\* frame version, the record type, the version of the value or the number of
\* tagged fields of its value; by carrying a header; by bytes that follow it
\* inside the batch
Defects == {"none", "frame_version", "record_type", "version", "tagged", "header", "padding"}

ValueDefects == {"frame_version", "record_type", "version", "tagged"}

EncodeRecordValue(rec, defect) ==
    LET frame_version == IF defect = "frame_version" THEN 2 ELSE 1
        record_type == IF defect = "record_type" THEN 5
                       ELSE IF rec.type = "Topic" THEN 2
                       ELSE IF rec.type = "Partition" THEN 3 ELSE 12
        right_version == IF rec.type = "Partition" THEN 1 ELSE 0
        version == IF defect = "version" THEN 1 - right_version ELSE right_version
        tagged_fields_count == IF defect = "tagged" THEN 1 ELSE 0
        fields ==
            IF rec.type = "Topic"
            THEN CompactString_serialize(rec.topic_name) \o rec.topic_id
            ELSE IF rec.type = "Partition"
            THEN put_u32(rec.partition_id) \o rec.topic_id
                 \o CompactArray_serialize([k \in DOMAIN rec.replicas |-> put_u32(rec.replicas[k])])
                 \o CompactArray_serialize([k \in DOMAIN rec.in_sync_replicas |-> put_u32(rec.in_sync_replicas[k])])
                 \o CompactArray_serialize([k \in DOMAIN rec.removing_replicas |-> put_u32(rec.removing_replicas[k])])
                 \o CompactArray_serialize([k \in DOMAIN rec.adding_replicas |-> put_u32(rec.adding_replicas[k])])
                 \o put_u32(rec.leader_id) \o put_u32(rec.leader_epoch) \o put_u32(0)
                 \o CompactArray_serialize(<<UuidOf(7)>>)
            ELSE CompactString_serialize(rec.name) \o put_i16(rec.level)
    IN  <<frame_version, record_type, version>> \o fields \o <<tagged_fields_count>>

\* length, attributes, timestamp delta, offset delta, a null key, the value
\* and the headers: none, or the one header "k" = "v"
EncodeRecord(rec, defect) ==
    LET value == EncodeRecordValue(rec, defect)
        headers == IF defect = "header" THEN <<2, 2, 107, 2, 118>> ELSE <<0>>
        body == <<0, 0, 0, 1>> \o ZigZagVarInt(Len(value)) \o value \o headers
    IN  ZigZagVarInt(Len(body)) \o body \o (IF defect = "padding" THEN <<0, 0, 0, 0>> ELSE <<>>)

\* a batch of marked records: batch_length counts every byte after itself
EncodeBatch(batch) ==
    LET records == Concat([k \in DOMAIN batch |-> EncodeRecord(batch[k].value, batch[k].defect)])
    IN  put_i64(0) \o put_i32((BatchPrefix - 12) + Len(records))
        \o put_i32(0) \o <<2>> \o put_u32(0) \o put_i16(0) \o put_i32(Len(batch) - 1)
        \o put_i64(0) \o put_i64(0) \o put_i64(-1) \o put_i16(-1) \o put_i32(-1)
        \o put_i32(Len(batch))
        \o records

EncodeLog(log) == Concat([k \in DOMAIN log |-> EncodeBatch(log[k])])

FileRecordValues ==
    {TopicValue(<<97>>, UuidOf(1)),
     PartitionValue(1, UuidOf(1), <<1, 2>>, <<2>>, <<3>>, <<4>>, 2, 5),
     FeatureLevelValue(<<109>>, 20)}

MarkedRecords == {[value |-> v, defect |-> d] : v \in FileRecordValues, d \in Defects}

\* at most one record departs from the layout, and bytes follow a record only
\* at the end of its batch
MarkedLogOk(log) ==
    /\ Cardinality({<<i, j>> \in (DOMAIN log) \X (1..MaxFileRecords + 1) :
                       j \in DOMAIN log[i] /\ log[i][j].defect # "none"}) <= 1
    /\ \A i \in DOMAIN log : \A j \in DOMAIN log[i] :
          log[i][j].defect = "padding" => j = Len(log[i])

\* the file as one batch, or as two batches cut at any place
MarkedLogs ==
    {log \in
        {<<>>}
        \cup {<<rs>> : rs \in SeqsUpTo(MarkedRecords, MaxFileRecords)}
        \cup UNION {{<<Take(rs, k), Drop(rs, k)>> : k \in 0..Len(rs)} :
                       rs \in SeqsUpTo(MarkedRecords, MaxFileRecords)} :
        MarkedLogOk(log)}


\* "a", "b" and "x"
TopicNames == {<<97>>, <<98>>, <<120>>}

ClientIds == {<<>>, <<107>>}

\* the client_id as a NULLABLE_STRING, the empty one sent as null
RequestBodyWithClient(key, ver, corr, client_id, rest) ==
    put_i16(key) \o put_i16(ver) \o put_i32(corr)
    \o (IF client_id = <<>> THEN put_i16(-1) ELSE put_i16(Len(client_id)) \o client_id)
    \o put_u8(0) \o rest

\* the body of a DescribeTopicPartitions request after the header: every
\* topic is a COMPACT_STRING followed by a tag buffer
TopicElement(name) == CompactString_serialize(name) \o put_u8(0)

DescribeTopicPartitionsBody(topics) ==
    CompactArray_serialize([k \in DOMAIN topics |-> TopicElement(topics[k])]) \o put_i32(1) \o put_u8(255) \o put_u8(0)

\* client_software_name "k", client_software_version "1", tag buffer
ApiVersionsBody == <<2, 107, 2, 49, 0>>

DirectRequests ==
    {[key |-> 18, ver |-> v, corr |-> c, client_id |-> id, topics |-> <<>>, rest |-> r] :
        v \in {-1, 0, 3, 4, 5}, c \in CorrelationIds, id \in ClientIds,
        r \in {<<>>, ApiVersionsBody}}
    \cup
    {[key |-> 75, ver |-> 0, corr |-> c, client_id |-> id, topics |-> t,
      rest |-> DescribeTopicPartitionsBody(t)] :
        c \in CorrelationIds, id \in ClientIds, t \in SeqsUpTo(TopicNames, MaxTopics)}
    \cup
    {[key |-> k, ver |-> 0, corr |-> c, client_id |-> <<>>, topics |-> <<>>, rest |-> <<>>] :
        k \in {1, 2}, c \in CorrelationIds}

EncodeDirect(r) == RequestBodyWithClient(r.key, r.ver, r.corr, r.client_id, r.rest)

\* the metadata log: topic "a" with two partitions, topic "b" with one
LogRecordValues ==
    {TopicValue(<<97>>, UuidOf(1)),
     PartitionValue(0, UuidOf(1), <<1>>, <<1>>, <<>>, <<>>, 1, 0),
     PartitionValue(1, UuidOf(1), <<1, 2>>, <<2>>, <<3>>, <<4>>, 2, 5),
     TopicValue(<<98>>, UuidOf(2)),
     PartitionValue(0, UuidOf(2), <<2>>, <<2>>, <<>>, <<>>, 2, 1)}

\* the log as one batch, or cut into two batches at any place
MetadataLogs ==
    {<<>>}
    \cup {<<rs>> : rs \in SeqsUpTo(LogRecordValues, MaxLogRecords)}
    \cup UNION {{<<Take(rs, k), Drop(rs, k)>> : k \in 0..Len(rs)} :
                   rs \in SeqsUpTo(LogRecordValues, MaxLogRecords)}

FetchTopicRequests ==
    {[topic_id |-> UuidOf(1), partitions |-> <<[partition |-> 0]>>],
     [topic_id |-> UuidOf(9), partitions |-> <<[partition |-> 0], [partition |-> 1]>>]}

ConnIdle == ConnInit

\* the response of a handler wrapped into a ResponseMessage
Framed(r) ==
    [status |-> r.status, error |-> r.error, resp |-> r.resp,
     message |-> IF r.status = "Ok" THEN ResponseMessage_from_bytes(r.resp.bytes) ELSE <<>>]

CallLogicProcess ==
    /\ ConnIdle /\ call = NoCall
    /\ \E r \in DirectRequests, cut \in BOOLEAN :
          LET m == IF cut THEN Take(EncodeDirect(r), 8) ELSE EncodeDirect(r)
          IN  /\ call' = [fn |-> "logic_process", request |-> r, cut |-> cut, msg |-> m]
              /\ ret' = Framed(logic_process(get_i16(m, 1), m))
    /\ UNCHANGED <<connVars, serverVars>>

CallTopicPartitionsProcess ==
    /\ ConnIdle /\ call = NoCall
    /\ \E t \in SeqsUpTo(TopicNames, MaxTopics), c \in CorrelationIds, log \in MetadataLogs :
          /\ call' = [fn |-> "topic_partitions_process", topics |-> t, corr |-> c, log |-> log]
          /\ ret' = Framed(topic_partitions_process(
                               [header |-> [correlation_id |-> c], topics |-> t], log))
    /\ UNCHANGED <<connVars, serverVars>>

CallFetchRequestProcess ==
    /\ ConnIdle /\ call = NoCall
    /\ \E t \in SeqsUpTo(FetchTopicRequests, MaxTopics), c \in CorrelationIds,
          session_id \in {0, 9} :
          /\ call' = [fn |-> "FetchRequestV16_process", topics |-> t, corr |-> c,
                      session_id |-> session_id]
          /\ ret' = Framed(FetchRequestV16_process(
                               [header |-> [correlation_id |-> c], session_id |-> session_id,
                                topics |-> t]))
    /\ UNCHANGED <<connVars, serverVars>>

\* the metadata logs of at most MaxFetchLogRecords records
FetchLogs == {log \in MetadataLogs : Len(Concat(log)) <= MaxFetchLogRecords}

CallFetchResponsesProcess ==
    /\ ConnIdle /\ call = NoCall
    /\ \E t \in SeqsUpTo(FetchTopicRequests, MaxTopics), c \in CorrelationIds,
          session_id \in {0, 9}, log \in FetchLogs :
          /\ call' = [fn |-> "fetch_responses_process", topics |-> t, corr |-> c,
                      session_id |-> session_id, log |-> log]
          /\ ret' = Framed(fetch_responses_process(
                               [header |-> [correlation_id |-> c], session_id |-> session_id,
                                topics |-> t], log))
    /\ UNCHANGED <<connVars, serverVars>>

\* the file as a later request finds it: empty, topic "a" without
\* partitions, topic "b" with its partition
ChangedLogs ==
    {<<>>,
     <<<<TopicValue(<<97>>, UuidOf(1))>>>>,
     <<<<TopicValue(<<98>>, UuidOf(2)),
         PartitionValue(0, UuidOf(2), <<2>>, <<2>>, <<>>, <<>>, 2, 1)>>>>}

\* the file at a request if its contents were kept from the request before
std_fs_read_KeptFromRequestBefore(on_disk, read_before) == read_before

\* topic_partitions.rs:18, record_batch.rs:16: std::fs::read in the handler
\* itself: the contents are those on disk at this request, whatever a
\* request before has read
std_fs_read(on_disk, read_before) == on_disk

\* topic_partitions.rs:17-123: process once more, for the same names, after
\* the file has changed
CallTopicPartitionsProcessAgain ==
    /\ ConnIdle
    /\ call.fn = "topic_partitions_process"
    /\ Len(call.topics) = 1 /\ Len(call.log) <= 1 /\ call.corr = 7
    /\ \E log \in ChangedLogs :
          /\ call' = [fn |-> "topic_partitions_process_again", topics |-> call.topics,
                      corr |-> call.corr, log |-> log,
                      before |-> [log |-> call.log, resp |-> ret.resp]]
          /\ ret' = Framed(topic_partitions_process(
                               [header |-> [correlation_id |-> call.corr],
                                topics |-> call.topics],
                               std_fs_read(log, call.log)))
    /\ UNCHANGED <<connVars, serverVars>>

\* fetch_responses.rs:14-78: process once more, for the same topic, after
\* the file has changed
CallFetchResponsesProcessAgain ==
    /\ ConnIdle
    /\ call.fn = "fetch_responses_process"
    /\ Len(call.topics) = 1 /\ call.corr = 7 /\ call.session_id = 9
    /\ \E log \in ChangedLogs :
          /\ call' = [fn |-> "fetch_responses_process_again", topics |-> call.topics,
                      corr |-> call.corr, session_id |-> call.session_id, log |-> log,
                      before |-> [log |-> call.log, resp |-> ret.resp]]
          /\ ret' = Framed(fetch_responses_process(
                               [header |-> [correlation_id |-> call.corr],
                                session_id |-> call.session_id, topics |-> call.topics],
                               std_fs_read(log, call.log)))
    /\ UNCHANGED <<connVars, serverVars>>

\* buffers of bytes with the continuation bit clear (0x01) and set (0x81),
\* and the buffers of the tests of types.rs
VarIntBuffers ==
    SeqsUpTo({1, 129}, MaxVarIntLen) \cup {<<104>>, <<104, 104>>, <<150, 1>>}

CallVarIntDeserialize ==
    /\ ConnIdle /\ call = NoCall
    /\ \E buf \in VarIntBuffers :
          LET r == VarInt_deserialize(buf)
          IN  /\ call' = [fn |-> "VarInt_deserialize", buf |-> buf]
              /\ ret' = [status |-> IF r.ok THEN "Value" ELSE "Panic",
                         val |-> r.val, rest |-> r.rest]
    /\ UNCHANGED <<connVars, serverVars>>

\* the lengths of the strings handed to CompactString::serialize: short ones,
\* and those around which the length byte gets its top bit set and wraps
StringLens == {0, 1, 2, 126, 127, 128, 253, 254, 255, MaxStringLen}

\* strings of NUL bytes and of the letter "a"
Strings == {[i \in 1..n |-> c] : n \in StringLens, c \in {0, 97}}

\* types.rs:18-32: CompactString::serialize and then CompactString::deserialize
\* over what it wrote, followed by the bytes of the next field.  `len as u8
\* + 1` panics on 255 in a build with overflow checks and wraps without them.
\* A call of a function of types.rs or of a parser keeps what it returned in a
\* field named after the returned type (string, vec_string, vec_u32, request,
\* batches), so that ret holds one type of value under one field name
CallCompactStringRoundTrip ==
    /\ ConnIdle /\ call = NoCall
    /\ \E s \in Strings, trailing \in {<<>>, <<0>>}, overflow_checks \in BOOLEAN :
          LET overflows == overflow_checks /\ Len(s) % 256 = 255
              bytes == IF overflows THEN <<>> ELSE CompactString_serialize(s)
              r == IF overflows THEN Panicked ELSE CompactString_deserialize(bytes \o trailing)
          IN  /\ call' = [fn |-> "CompactString_round_trip", s |-> s, trailing |-> trailing,
                          overflow_checks |-> overflow_checks,
                          serialized |-> ~overflows, bytes |-> bytes]
              /\ ret' = [status |-> IF r.ok THEN "Value" ELSE "Panic",
                         string |-> r.val, rest |-> r.rest]
    /\ UNCHANGED <<connVars, serverVars>>

\* the COMPACT_STRINGs "a" and "" as they lie in a buffer
StringElements == {<<2, 97>>, <<1>>}

\* lists of elements: short ones and a long one
ElementLists == SeqsUpTo(StringElements, MaxTopics) \cup {[i \in 1..MaxArrayItems |-> <<1>>]}

\* types.rs:75-86: CompactArray::deserialize::<_, CompactString> over a length
\* byte, the elements and the bytes of the next field
CallCompactArrayDeserialize ==
    /\ ConnIdle /\ call = NoCall
    /\ \E len \in {0, 1, 2, 3, MaxArrayItems + 1}, elements \in ElementLists, trailing \in {<<>>, <<0>>} :
          LET src == put_u8(len) \o Concat(elements) \o trailing
              r == CompactArray_deserialize_CompactString(src)
          IN  /\ call' = [fn |-> "CompactArray_deserialize", len |-> len,
                          elements |-> elements, trailing |-> trailing, src |-> src]
              /\ ret' = [status |-> IF r.ok THEN "Value" ELSE "Panic",
                         vec_string |-> r.val, rest |-> r.rest]
    /\ UNCHANGED <<connVars, serverVars>>

\* types.rs:62-86: CompactArray::serialize over u32 items (impl Serialize for
\* u32) and then CompactArray::deserialize::<u32, _> over what it wrote
CallCompactArrayRoundTrip ==
    /\ ConnIdle /\ call = NoCall
    /\ \E items \in SeqsUpTo({1, 2}, MaxTopics), trailing \in {<<>>, <<0>>} :
          LET bytes == CompactArray_serialize([k \in DOMAIN items |-> put_u32(items[k])])
              r == CompactArray_deserialize_u32(bytes \o trailing)
          IN  /\ call' = [fn |-> "CompactArray_round_trip", items |-> items,
                          trailing |-> trailing, bytes |-> bytes]
              /\ ret' = [status |-> IF r.ok THEN "Value" ELSE "Panic",
                         vec_u32 |-> r.val, rest |-> r.rest]
    /\ UNCHANGED <<connVars, serverVars>>

\* describe_topic_partitions.rs:23-37: from_bytes over the body of a request
\* in which every topic is a COMPACT_STRING followed by a tag buffer
CallDescribeTopicPartitionsFromBytes ==
    /\ ConnIdle /\ call = NoCall
    /\ \E r \in DirectRequests :
          /\ r.key = 75
          /\ LET m == EncodeDirect(r)
                 req == DescribeTopicPartitionsRequestV0_from_bytes(m)
             IN  /\ call' = [fn |-> "DescribeTopicPartitionsRequestV0_from_bytes",
                             request |-> r, msg |-> m]
                 /\ ret' = [status |-> IF req.ok THEN "Value" ELSE "Panic",
                            request |-> req.val, rest |-> req.rest]
    /\ UNCHANGED <<connVars, serverVars>>

\* api_key, api_version 0 and correlation_id 7
ShortHeader(key) == put_i16(key) \o put_i16(0) \o put_i32(7)

\* messages that end before the fields their decoder reads: inside the first
\* 8 bytes; inside the client_id, whose length points past the end or is
\* below -1; before the tag buffer of the header; inside a topic name; before
\* the last element of the topics array; inside the fields after the array
ShortMessages ==
    {[why |-> "header", key |-> k, msg |-> Take(ShortHeader(k), n)] :
        k \in {18, 75}, n \in 2..7}
    \cup {[why |-> "client_id past the end", key |-> k,
           msg |-> ShortHeader(k) \o put_i16(l[1]) \o [i \in 1..l[2] |-> 107]] :
             k \in {18, 75}, l \in {<<1, 0>>, <<3, 0>>, <<3, 2>>}}
    \cup {[why |-> "client_id below -1", key |-> r.key,
           msg |-> ShortHeader(r.key) \o put_i16(l) \o put_u8(0) \o r.rest] :
             r \in {d \in DirectRequests : d.key \in {18, 75}}, l \in {-2, -32768}}
    \cup {[why |-> "tag buffer", key |-> k, msg |-> ShortHeader(k) \o put_i16(-1)] :
             k \in {18, 75}}
    \cup {[why |-> "topic name past the end", key |-> 75,
           msg |-> ShortHeader(75) \o put_i16(-1) \o put_u8(0) \o <<2, 5, 97, 98>>]}
    \cup {[why |-> "topics past the end", key |-> 75,
           msg |-> ShortHeader(75) \o put_i16(-1) \o put_u8(0) \o <<n[1] + 1>>
                   \o Concat([i \in 1..n[2] |-> TopicElement(<<97>>)])] :
             n \in {<<1, 0>>, <<2, 1>>, <<3, 1>>, <<3, 2>>}}
    \cup {[why |-> "response_partition_limit", key |-> 75,
           msg |-> ShortHeader(75) \o put_i16(-1) \o put_u8(0) \o <<2>>
                   \o TopicElement(<<97>>) \o Take(put_i32(1), n)] : n \in 0..3}

\* logic.rs:13-37: process on a message that is too short
CallLogicProcessShort ==
    /\ ConnIdle /\ call = NoCall
    /\ \E m \in ShortMessages :
          /\ call' = [fn |-> "logic_process_short", why |-> m.why, corr |-> 7, msg |-> m.msg]
          /\ ret' = Framed(logic_process(get_i16(m.msg, 1), m.msg))
    /\ UNCHANGED <<connVars, serverVars>>

\* record_batch.rs:15-27: RecordBatches::from_file on the bytes of a file
CallRecordBatchesFromFile ==
    /\ ConnIdle /\ call = NoCall
    /\ \E log \in MarkedLogs :
          LET r == RecordBatches_from_file(EncodeLog(log))
          IN  /\ call' = [fn |-> "RecordBatches_from_file", log |-> log,
                          file |-> EncodeLog(log)]
              /\ ret' = [status |-> IF r.ok THEN "Value" ELSE "Panic",
                         batches |-> r.val, rest |-> r.rest]
    /\ UNCHANGED <<connVars, serverVars>>

\* topic_partitions.rs:17-123: process, reading the file
CallTopicPartitionsProcessOnFile ==
    /\ ConnIdle /\ call = NoCall
    /\ \E log \in MarkedLogs, t \in {<<<<97>>>>, <<<<120>>, <<97>>>>} :
          /\ call' = [fn |-> "topic_partitions_process_file", topics |-> t, corr |-> 7,
                      log |-> log, file |-> EncodeLog(log)]
          /\ ret' = Framed(topic_partitions_process_file(
                               [header |-> [correlation_id |-> 7], topics |-> t],
                               EncodeLog(log)))
    /\ UNCHANGED <<connVars, serverVars>>

\* fetch_responses.rs:14-78: process, reading the file
CallFetchResponsesProcessOnFile ==
    /\ ConnIdle /\ call = NoCall
    /\ \E log \in MarkedLogs :
          LET t == <<[topic_id |-> UuidOf(1), partitions |-> <<[partition |-> 0]>>]>>
          IN  /\ call' = [fn |-> "fetch_responses_process_file", topics |-> t, corr |-> 7,
                          session_id |-> 9, log |-> log, file |-> EncodeLog(log)]
              /\ ret' = Framed(fetch_responses_process_file(
                                   [header |-> [correlation_id |-> 7], session_id |-> 9,
                                    topics |-> t],
                                   EncodeLog(log)))
    /\ UNCHANGED <<connVars, serverVars>>

Handlers ==
    \/ CallVarIntDeserialize
    \/ CallTopicPartitionsProcessAgain
    \/ CallFetchResponsesProcessAgain
    \/ CallLogicProcessShort
    \/ CallRecordBatchesFromFile
    \/ CallTopicPartitionsProcessOnFile
    \/ CallFetchResponsesProcessOnFile
    \/ CallDescribeTopicPartitionsFromBytes
    \/ CallCompactStringRoundTrip
    \/ CallCompactArrayDeserialize
    \/ CallCompactArrayRoundTrip
    \/ CallLogicProcess
    \/ CallTopicPartitionsProcess
    \/ CallFetchRequestProcess
    \/ CallFetchResponsesProcess

Next == ClientSend \/ ClientClose \/ ConnReset \/ handle_connection \/ Handlers

Spec == Init /\ [][Next]_vars

\* the runtime polls the connection's task whenever its socket call can finish
FairSpec == Spec /\ WF_vars(handle_connection)

(***************************************************************************)
(* main.rs main: the accept loop and the tasks it spawns.  Every task owns *)
(* its stream and runs handle_connection on it; a task is followed one     *)
(* iteration of the loop of handle_connection at a time.                   *)
(***************************************************************************)
\* what the clients of these connections send: a well-formed request, a
\* frame with a 3-byte body, a frame cut short
TaskRequests ==
    {[shape |-> "frame", key |-> 18, ver |-> 4, corr |-> 7],
     [shape |-> "short", key |-> 18, ver |-> 4, corr |-> 0],
     [shape |-> "truncated", key |-> 18, ver |-> 4, corr |-> 0]}

\* the loop of main if the result of handle_connection were awaited and
\* propagated with `?` in main itself
spawned_AwaitedInMain(main_state, outcome) ==
    IF outcome \in {"err", "panic"} THEN "returned" ELSE main_state

\* main.rs:16-22: handle_connection runs in a task of its own; its Err is
\* printed by unwrap_or_else, its panic ends at the task boundary, and the
\* JoinHandle is dropped: main's loop is the same whatever the outcome
spawned(main_state, outcome) == main_state

\* main.rs:29-44: the socket is broken, or the client has closed, or the
\* frame at the head of the stream is complete: the iteration can run to
\* its end without waiting
Ready(t) ==
    \/ t.ioError
    \/ t.clientClosed
    \/ /\ Len(t.stream) >= 4
       /\ \/ get_i32(t.stream, 1) < 0
          \/ Len(t.stream) - 4 >= get_i32(t.stream, 1)

\* main.rs:27-105: one iteration of the loop on the connection of task t;
\* broke: the socket breaks after the peek
handle_connection_iteration(t, broke) ==
    IF t.ioError THEN [t EXCEPT !.pc = "ok"]
    ELSE IF broke THEN [t EXCEPT !.pc = "err", !.ioError = TRUE]
    ELSE IF Len(t.stream) < 4 THEN [t EXCEPT !.pc = "err"]
    ELSE LET size == get_i32(t.stream, 1)
             rest == Drop(t.stream, 4)
         IN  IF size < 0 THEN [t EXCEPT !.pc = "panic", !.stream = rest]
             ELSE IF Len(rest) < size THEN [t EXCEPT !.pc = "err", !.stream = rest]
             ELSE IF size < 8
             THEN [t EXCEPT !.pc = "panic", !.stream = Drop(rest, size)]
             ELSE [t EXCEPT !.stream = Drop(rest, size),
                            !.written = Append(@, BuildResponse(Take(rest, size)))]

\* main.rs:13-22: accept returns a stream and a task is spawned for it
MainAccept ==
    /\ main_pc = "accept"
    /\ \E c \in 1..MaxConnections :
          /\ tasks[c].pc = "free"
          /\ \A d \in 1..(c - 1) : tasks[d].pc # "free"
          /\ tasks' = [tasks EXCEPT ![c] = [NoTask EXCEPT !.pc = "run"]]
    /\ UNCHANGED <<main_pc, connVars, libVars>>

\* main.rs:14: accept fails, `?` returns from main, and the runtime is
\* dropped with every task still running
MainAcceptFails ==
    /\ main_pc = "accept"
    /\ main_pc' = "returned"
    /\ tasks' = [c \in 1..MaxConnections |->
                    IF tasks[c].pc = "run" THEN [tasks[c] EXCEPT !.pc = "cancelled"]
                    ELSE tasks[c]]
    /\ UNCHANGED <<connVars, libVars>>

\* a client sends its next request once the last one is answered
TaskClientSend(c) ==
    /\ tasks[c].pc # "free"
    /\ ~tasks[c].clientClosed /\ ~tasks[c].ioError
    /\ tasks[c].sent < MaxTaskRequests
    /\ Len(tasks[c].written) = tasks[c].sent
    /\ \E r \in TaskRequests :
          tasks' = [tasks EXCEPT ![c].stream = @ \o Encode(r), ![c].sent = @ + 1]
    /\ UNCHANGED <<main_pc, connVars, libVars>>

TaskClientClose(c) ==
    /\ tasks[c].pc # "free"
    /\ ~tasks[c].clientClosed /\ ~tasks[c].ioError
    /\ tasks' = [tasks EXCEPT ![c].clientClosed = TRUE]
    /\ UNCHANGED <<main_pc, connVars, libVars>>

TaskConnReset(c) ==
    /\ tasks[c].pc = "run"
    /\ ~tasks[c].ioError
    /\ tasks' = [tasks EXCEPT ![c].ioError = TRUE]
    /\ UNCHANGED <<main_pc, connVars, libVars>>

\* main.rs:16-22 with 27-105: the runtime polls task c, which runs one
\* iteration of handle_connection
SpawnedTask(c) ==
    /\ main_pc = "accept"
    /\ tasks[c].pc = "run"
    /\ Ready(tasks[c])
    /\ \E broke \in BOOLEAN :
          LET t == handle_connection_iteration(tasks[c], broke)
          IN  /\ tasks' = [tasks EXCEPT ![c] = t]
              /\ main_pc' = spawned(main_pc, t.pc)
    /\ UNCHANGED <<connVars, libVars>>

ServerNext ==
    \/ MainAccept
    \/ MainAcceptFails
    \/ \E c \in 1..MaxConnections : TaskClientSend(c)
    \/ \E c \in 1..MaxConnections : TaskClientClose(c)
    \/ \E c \in 1..MaxConnections : TaskConnReset(c)
    \/ \E c \in 1..MaxConnections : SpawnedTask(c)

ServerSpec == Init /\ [][ServerNext]_vars

(***************************************************************************)
(* What a client reads off a response.  A response written to the socket   *)
(* starts with its 4-byte size; the bytes a handler returns do not.        *)
(***************************************************************************)
SizePrefixExact(b) == Len(b) >= 4 /\ get_i32(b, 1) = Len(b) - 4

\* the request the i-th response answers on a connection that serves its
\* requests in order
AnsweredRequest(i) == requests[i]

DirectOk == call # NoCall /\ ret.status = "Ok"

(***************************************************************************)
(* C1  For every response the server writes, the leading 4-byte big-endian *)
(* integer equals the number of bytes that follow it in that response, for *)
(* every response kind and body length: both for the responses             *)
(* handle_connection writes and for ResponseMessage::from_bytes over the   *)
(* bytes of every handler's response.                                      *)
(***************************************************************************)
C1_LengthPrefixExact ==
    /\ \A i \in DOMAIN written : SizePrefixExact(written[i])
    /\ DirectOk => /\ SizePrefixExact(ret.message)
                   /\ Drop(ret.message, 4) = ret.resp.bytes

\* two responses of different lengths have been written on the connection
C1_Witness ==
    /\ Len(written) = 2
    /\ Len(written[1]) # Len(written[2])

(***************************************************************************)
(* C2  Every response carries, as its first header field, the              *)
(* correlation_id of the request it answers, for every request kind and    *)
(* for the success and the error-code outcomes.                            *)
(***************************************************************************)
C2_CorrelationIdEchoed ==
    /\ \A i \in DOMAIN written : get_i32(written[i], 5) = AnsweredRequest(i).corr
    /\ DirectOk /\ call.fn = "logic_process" =>
          get_i32(ret.resp.bytes, 1) = call.request.corr
    /\ DirectOk /\ call.fn # "logic_process" =>
          get_i32(ret.resp.bytes, 1) = call.corr

\* an ApiVersions request refused with error code 35 and a request of
\* another kind, with different correlation ids, have both been answered
C2_Witness ==
    /\ Len(written) = 2
    /\ requests[1].key = 18 /\ requests[1].ver = 5 /\ requests[1].corr = -2
    /\ get_i16(written[1], 9) = 35
    /\ requests[2].key = 75 /\ requests[2].corr = 7

(***************************************************************************)
(* C3  On a connection requests are handled in FIFO order: the i-th        *)
(* response written answers the i-th request read (which is the i-th the   *)
(* client sent), at most one response is written per request, and request  *)
(* i+1 is not read before the response to request i has been written.      *)
(***************************************************************************)
FifoOrder ==
    /\ Len(written) <= Len(reads)
    /\ Len(reads) <= Len(written) + 1
    /\ Len(reads) <= Len(requests)
    /\ \A i \in DOMAIN reads : reads[i] = Drop(Encode(requests[i]), 4)
    /\ \A i \in DOMAIN written :
          /\ get_i32(written[i], 5) = get_i32(reads[i], 5)
          /\ get_i16(written[i], 9) \in {0, 35}
          /\ get_i16(written[i], 9) = 35 <=>
                (get_i16(reads[i], 1) = 18 /\ get_i16(reads[i], 3) \notin 0..4)

C3_Fifo ==
    [][/\ FifoOrder'
       /\ reads' # reads =>
             /\ Len(reads') = Len(reads) + 1
             /\ Len(written) = Len(reads)
       /\ written' # written =>
             /\ Len(written') = Len(written) + 1
             /\ Len(written') = Len(reads)]_vars

\* two requests that differ in kind and correlation id were both in the
\* socket before the first was read, and both have been answered
C3_Witness ==
    /\ Len(written) = 2
    /\ requests[1].corr # requests[2].corr
    /\ requests[1].key # requests[2].key

(***************************************************************************)
(* C4  For an ApiVersions request (api_key 18) the response error_code is  *)
(* 35 if and only if the header's api_version is outside 0..=4, negative   *)
(* versions included; otherwise it is 0.                                   *)
(***************************************************************************)
ExpectedErrorCode(ver) == IF ver \in 0..4 THEN 0 ELSE 35

C4_UnsupportedVersion ==
    /\ \A i \in DOMAIN written :
          AnsweredRequest(i).key = 18 =>
              get_i16(written[i], 9) = ExpectedErrorCode(AnsweredRequest(i).ver)
    /\ DirectOk /\ call.fn = "logic_process" /\ call.request.key = 18 =>
          /\ get_i16(ret.resp.bytes, 5) = ExpectedErrorCode(call.request.ver)
          /\ ret.resp.error_code = ExpectedErrorCode(call.request.ver)

\* a negative api_version has been refused and api_version 4 accepted
C4_Witness ==
    /\ Len(written) = 2
    /\ requests[1].key = 18 /\ requests[1].ver = -1 /\ get_i16(written[1], 9) = 35
    /\ requests[2].key = 18 /\ requests[2].ver = 4 /\ get_i16(written[2], 9) = 0

(***************************************************************************)
(* C5  Every ApiVersions response, whatever the requested api_version and  *)
(* error_code, lists exactly the three entries (api_key, min, max) =       *)
(* (1,0,16), (18,0,4), (75,0,0), in that order, with throttle_ms = 0.      *)
(* Stated as claimed: handle_connection lists (18,0,4) alone, and          *)
(* ApiVersionsResponseV3::new lists (18,0,4), (75,0,0), (1,0,16).          *)
(***************************************************************************)
ClaimedApiKeys ==
    <<[api_key |-> 1, min_version |-> 0, max_version |-> 16],
      [api_key |-> 18, min_version |-> 0, max_version |-> 4],
      [api_key |-> 75, min_version |-> 0, max_version |-> 0]>>

\* api_keys, throttle_time_ms and the tag buffer, as they follow error_code
ClaimedApiVersionsTail ==
    CompactArray_serialize([k \in DOMAIN ClaimedApiKeys |-> ApiVersionsApiKeys_serialize(ClaimedApiKeys[k])])
    \o put_i32(0) \o put_u8(0)

C5_ApiKeysListed ==
    /\ \A i \in DOMAIN written :
          AnsweredRequest(i).key = 18 => Drop(written[i], 10) = ClaimedApiVersionsTail
    /\ DirectOk /\ call.fn = "logic_process" /\ call.request.key = 18 =>
          /\ ret.resp.api_keys_vec = ClaimedApiKeys
          /\ ret.resp.throttle_time_ms = 0
          /\ Drop(ret.resp.bytes, 6) = ClaimedApiVersionsTail

(***************************************************************************)
(* C6  An ApiVersions request with an unsupported api_version is still     *)
(* answered with a response carrying error_code 35, and the connection     *)
(* stays open: a following well-formed request on the same connection is   *)
(* read and answered (unless the socket breaks).                           *)
(***************************************************************************)
C6_OpenAfterUnsupportedVersion ==
    (/\ Len(requests) >= 2
     /\ requests[1].shape = "frame" /\ requests[1].key = 18 /\ requests[1].ver \notin 0..4
     /\ requests[2].shape = "frame")
    ~> (\/ ioError
        \/ /\ Len(written) >= 2
           /\ get_i16(written[1], 9) = 35
           /\ get_i32(written[1], 5) = requests[1].corr
           /\ get_i32(written[2], 5) = requests[2].corr)

\* api_version 5 was refused with 35 and the next request, a supported
\* ApiVersions request, has been answered with error code 0
C6_Witness ==
    /\ Len(written) = 2
    /\ requests[1].key = 18 /\ requests[1].ver = 5 /\ get_i16(written[1], 9) = 35
    /\ requests[2].key = 18 /\ requests[2].ver = 0 /\ get_i16(written[2], 9) = 0

(***************************************************************************)
(* C7  When a request's header api_key is not one of 1, 18, 75, the server *)
(* writes no response bytes for that request and closes the connection; no *)
(* later request on that connection is served.  Stated as claimed:         *)
(* handle_connection never looks the key up and answers every request.     *)
(***************************************************************************)
C7_UnknownKeyClosesConnection ==
    \A i \in DOMAIN requests :
        requests[i].shape = "frame" /\ requests[i].key \notin {1, 18, 75} =>
            Len(written) < i

(***************************************************************************)
(* C8  The dispatcher routes by api_key: key 18 is answered by the         *)
(* ApiVersions handler, key 75 by the DescribeTopicPartitions handler and  *)
(* key 1 by the Fetch handler; the kind of the response written always     *)
(* matches the kind of the request's api_key.  Stated as claimed:          *)
(* handle_connection writes the ApiVersions body for every key, and the    *)
(* match of logic.rs process has no arm for Fetch.                         *)
(***************************************************************************)
\* header v1, then a body that ends with next_cursor 0xFF and a tag buffer
LooksLikeDescribeTopicPartitions(b) ==
    Len(b) >= 12 /\ b[5] = 0 /\ b[Len(b) - 1] = 255 /\ b[Len(b)] = 0

\* header v1, throttle_time_ms, error_code, session_id, responses, tag buffer
LooksLikeFetch(b) == Len(b) >= 17 /\ b[5] = 0 /\ b[Len(b)] = 0

KindOfKey(key) ==
    CASE key = 18 -> "ApiVersions"
      [] key = 75 -> "DescribeTopicPartitions"
      [] key = 1 -> "Fetch"
      [] OTHER -> "none"

C8_RoutedByApiKey ==
    /\ \A i \in DOMAIN written :
          /\ AnsweredRequest(i).key = 75 =>
                LooksLikeDescribeTopicPartitions(Drop(written[i], 4))
          /\ AnsweredRequest(i).key = 1 => LooksLikeFetch(Drop(written[i], 4))
    /\ (/\ call.fn = "logic_process" /\ ~call.cut
        /\ call.request.key \in {1, 18, 75}
        /\ call.request.key = 75 => call.request.topics # <<>>)
       => /\ ret.status = "Ok"
          /\ ret.resp.kind = KindOfKey(call.request.key)

(***************************************************************************)
(* C9  Only ApiVersions responses use the v0 response header               *)
(* (correlation_id alone, 4 bytes); every DescribeTopicPartitions and      *)
(* Fetch response uses the v1 header: correlation_id followed by exactly   *)
(* one tag-buffer byte 0x00, written exactly once at the start of the      *)
(* response, so that the body starts at the fifth resp. the sixth byte     *)
(* after the size.  Stated as claimed: handle_connection puts the 4-byte   *)
(* header before the body whatever the request's api_key is.               *)
(***************************************************************************)
HeaderLenOfKey(key) == IF key = 18 THEN 4 ELSE 5

C9_ResponseHeaders ==
    /\ \A i \in DOMAIN written :
          LET b == Drop(written[i], 4)
              header == Take(b, Len(b) - Len(ResponseBody(reads[i])))
          IN  /\ Len(header) = HeaderLenOfKey(AnsweredRequest(i).key)
              /\ Take(header, 4) = put_i32(AnsweredRequest(i).corr)
              /\ \A j \in 5..Len(header) : header[j] = 0
    /\ DirectOk =>
        LET b == ret.resp.bytes
            r == ret.resp
        IN  /\ Take(b, 4) = put_i32(r.correlation_id)
            /\ r.kind = "ApiVersions" =>
                  /\ get_i16(b, 5) = r.error_code
                  /\ b[7] = Len(r.api_keys_vec) + 1
                  /\ Len(b) = 4 + 2 + 1 + (7 * Len(r.api_keys_vec)) + 4 + 1
            /\ r.kind = "DescribeTopicPartitions" =>
                  /\ b[5] = 0
                  /\ SubSeq(b, 6, 9) = put_i32(r.throttle_time_ms)
                  /\ b[10] = Len(r.topics) + 1
                  /\ SubSeq(b, Len(b) - 1, Len(b)) = <<r.next_cursor, 0>>
            /\ r.kind = "Fetch" =>
                  /\ b[5] = 0
                  /\ SubSeq(b, 6, 9) = put_i32(r.throttle_time_ms)
                  /\ get_i16(b, 10) = r.error_code
                  /\ SubSeq(b, 12, 15) = put_u32(r.session_id)
                  /\ b[16] = Len(r.responses) + 1

\* the same statement for the handlers alone: ApiVersionsResponseV3,
\* DescribeTopicPartitionsResponseV0 and FetchResponseV16 as they serialize
C9_HandlersOnly == written = <<>> => C9_ResponseHeaders

(***************************************************************************)
(* C10  In a DescribeTopicPartitions response every requested name that    *)
(* has no TopicValue in the metadata log yields a TopicInfo with           *)
(* error_code 3, that name, the all-zero topic_id, is_internal false, no   *)
(* partitions and topic_authorized_operations 0x0DF, whatever other names  *)
(* are in the request and whatever the log contains.  Stated as claimed:   *)
(* the error topics of topic_partitions.rs process take the topic_id the   *)
(* scan of the last batch left behind, and                                 *)
(* DescribeTopicPartitionsRequestV0::process answers the first name only.  *)
(***************************************************************************)
InLog(batches, name) ==
    \E i \in DOMAIN batches : \E j \in DOMAIN batches[i] :
        batches[i][j].type = "Topic" /\ batches[i][j].topic_name = name

HasTopicInfo(topics, info) == \E j \in DOMAIN topics : topics[j] = info

C10_UnknownTopicInfo ==
    /\ DirectOk /\ call.fn = "topic_partitions_process" =>
          \A k \in DOMAIN call.topics :
              ~InLog(call.log, call.topics[k]) =>
                  HasTopicInfo(ret.resp.topics,
                               UnknownTopic(call.topics[k], UuidOf(0)))
    /\ DirectOk /\ call.fn = "logic_process" /\ call.request.key = 75 =>
          \A k \in DOMAIN ret.resp.topics :
              /\ ret.resp.topics[k].error_code = 3
              /\ ret.resp.topics[k].topic_id = UuidOf(0)

(***************************************************************************)
(* What the metadata log holds, read as one sequence of records in file    *)
(* order, whatever the batches they lie in.                                *)
(***************************************************************************)
FlatLog(batches) == Concat(batches)

\* the topic_id of the first TopicValue carrying the name
TopicIdInLog(batches, name) ==
    LET records == FlatLog(batches)
        first == CHOOSE j \in DOMAIN records :
                    /\ records[j].type = "Topic" /\ records[j].topic_name = name
                    /\ \A i \in 1..(j - 1) :
                          ~(records[i].type = "Topic" /\ records[i].topic_name = name)
    IN  records[first].topic_id

\* the PartitionInfo claimed for the PartitionValue rec
ClaimedPartitionInfo(rec) ==
    [error_code |-> 0,
     partition_index |-> rec.partition_id,
     leader_id |-> rec.leader_id,
     leader_epoch |-> rec.leader_epoch,
     replicas |-> rec.replicas,
     in_sync_replicas |-> rec.in_sync_replicas,
     eligible_leader_replicas |-> rec.adding_replicas,
     last_known_eligible_leader_replicas |-> <<>>,
     off_line_replicas |-> rec.removing_replicas]

\* all PartitionValues of the log with the topic_id, in file order
PartitionsInLog(batches, topic_id) ==
    LET OfTopic(rec) == rec.type = "Partition" /\ rec.topic_id = topic_id
        recs == SelectSeq(FlatLog(batches), OfTopic)
    IN  [k \in DOMAIN recs |-> ClaimedPartitionInfo(recs[k])]

ClaimedKnownTopic(batches, name) ==
    [error_code |-> 0,
     name |-> name,
     topic_id |-> TopicIdInLog(batches, name),
     is_internal |-> FALSE,
     partitions |-> PartitionsInLog(batches, TopicIdInLog(batches, name)),
     topic_authorized_operations |-> 223]

(***************************************************************************)
(* C11  In a DescribeTopicPartitions response every requested name that    *)
(* has a TopicValue in the metadata log yields a TopicInfo with error_code *)
(* 0 and that TopicValue's topic_id, whose partitions are exactly all      *)
(* PartitionValues of the whole log with that topic_id, in file order:     *)
(* also when the topic has no PartitionValue, when a PartitionValue        *)
(* precedes the TopicValue, and when they lie in different batches.        *)
(* Stated as claimed: process scans batch by batch, matches a              *)
(* PartitionValue only after the TopicValue of the same batch, and drops   *)
(* a topic without partitions.                                             *)
(***************************************************************************)
C11_KnownTopicInfo ==
    DirectOk /\ call.fn = "topic_partitions_process" =>
        \A k \in DOMAIN call.topics :
            InLog(call.log, call.topics[k]) =>
                HasTopicInfo(ret.resp.topics, ClaimedKnownTopic(call.log, call.topics[k]))

(***************************************************************************)
(* C12  The sequence of TopicInfo names in a DescribeTopicPartitions       *)
(* response equals the sequence of requested names, element by element,    *)
(* for any mix of known and unknown names and any placement of the topics  *)
(* across batches.  Stated as claimed: process appends the topics it found *)
(* batch by batch and the error topics after them.                         *)
(***************************************************************************)
C12_TopicsInRequestOrder ==
    DirectOk /\ call.fn = "topic_partitions_process" =>
        [k \in DOMAIN ret.resp.topics |-> ret.resp.topics[k].name] = call.topics

(***************************************************************************)
(* C13  Each PartitionInfo of a DescribeTopicPartitions response is built  *)
(* from one PartitionValue p of the log with the topic's topic_id: error   *)
(* 0, partition_index = p.partition_id, leader_id and leader_epoch copied, *)
(* replicas = p.replicas, isr = p.in_sync_replicas, eligible leader        *)
(* replicas = p.adding_replicas, last known eligible leader replicas       *)
(* empty, offline replicas = p.removing_replicas; and it is serialized in  *)
(* that order.                                                             *)
(***************************************************************************)
U32Array(s) == put_u8(Len(s) + 1) \o Concat([k \in DOMAIN s |-> put_u32(s[k])])

ClaimedPartitionBytes(rec) ==
    put_i16(0)
    \o put_u32(rec.partition_id) \o put_u32(rec.leader_id) \o put_u32(rec.leader_epoch)
    \o U32Array(rec.replicas) \o U32Array(rec.in_sync_replicas)
    \o U32Array(rec.adding_replicas) \o U32Array(<<>>) \o U32Array(rec.removing_replicas)
    \o put_u8(0)

C13_PartitionMapping ==
    DirectOk /\ call.fn = "topic_partitions_process" =>
        \A t \in DOMAIN ret.resp.topics :
            \A q \in DOMAIN ret.resp.topics[t].partitions :
                LET topic == ret.resp.topics[t]
                    p == topic.partitions[q]
                    records == FlatLog(call.log)
                IN  \E j \in DOMAIN records :
                       /\ records[j].type = "Partition"
                       /\ records[j].topic_id = topic.topic_id
                       /\ p = ClaimedPartitionInfo(records[j])
                       /\ Partition_serialize(p) = ClaimedPartitionBytes(records[j])

\* a topic of the response holds the partition whose adding and removing
\* replicas are not empty and differ
C13_Witness ==
    /\ DirectOk /\ call.fn = "topic_partitions_process"
    /\ \E t \in DOMAIN ret.resp.topics :
          \E q \in DOMAIN ret.resp.topics[t].partitions :
              LET p == ret.resp.topics[t].partitions[q]
              IN  /\ p.partition_index = 1
                  /\ p.eligible_leader_replicas = <<4>>
                  /\ p.off_line_replicas = <<3>>

(***************************************************************************)
(* What a Fetch request asks for and what the log knows.  The handler of   *)
(* protocol/request/fetch.rs reads no log: for it every topic_id is        *)
(* unknown, as with an empty log.                                          *)
(***************************************************************************)
FetchCalls == {"fetch_responses_process", "FetchRequestV16_process"}

FetchLogOfCall == IF call.fn = "fetch_responses_process" THEN call.log ELSE <<>>

KnownTopicId(batches, topic_id) ==
    \E i \in DOMAIN batches : \E j \in DOMAIN batches[i] :
        batches[i][j].type = "Topic" /\ batches[i][j].topic_id = topic_id

\* the response holds an entry for the q-th requested partition of the t-th
\* requested topic
HasPartitionResponse(t, q) ==
    /\ t \in DOMAIN ret.resp.responses
    /\ q \in DOMAIN ret.resp.responses[t].partitions

\* partition_index, error_code, three offsets, aborted transactions and
\* preferred_read_replica come before the record batches
BeforeRecordBatches == 4 + 2 + 8 + 8 + 8 + 1 + 4

(***************************************************************************)
(* C14  In a Fetch response every requested partition of a topic_id for    *)
(* which no record batch of the metadata log contains a TopicValue with    *)
(* that topic_id gets error_code 100 (UnknownTopicId) and null record      *)
(* batches, encoded as the single byte 0x01.  Stated as claimed, for both  *)
(* handlers: FetchRequestV16::process answers the first partition of the   *)
(* first topic only.                                                       *)
(***************************************************************************)
C14_UnknownTopicId ==
    DirectOk /\ call.fn \in FetchCalls =>
        \A t \in DOMAIN call.topics :
            ~KnownTopicId(FetchLogOfCall, call.topics[t].topic_id) =>
                \A q \in DOMAIN call.topics[t].partitions :
                    /\ HasPartitionResponse(t, q)
                    /\ LET p == ret.resp.responses[t].partitions[q]
                           b == TopicPartition_serialize(p)
                       IN  /\ p.error_code = 100
                           /\ p.record_batches = <<>>
                           /\ get_i16(b, 5) = 100
                           /\ Drop(b, BeforeRecordBatches) = <<1, 0>>

\* the same statement for logic/fetch_responses.rs process alone
C14_FetchResponsesOnly == call.fn = "fetch_responses_process" => C14_UnknownTopicId

(***************************************************************************)
(* C15  In a Fetch response every requested partition of a topic_id found  *)
(* in the metadata log gets error_code 0 and the raw bytes of the first    *)
(* record batch containing a TopicValue with that topic_id, written as a   *)
(* single chunk in COMPACT_NULLABLE_BYTES form: one length byte holding    *)
(* (number of raw bytes + 1) followed by those bytes.  Stated as claimed:  *)
(* TopicPartition::serialize writes the chunk as a COMPACT_ARRAY of one    *)
(* element, whose length byte is 2.                                        *)
(***************************************************************************)
C15_KnownTopicBatch ==
    DirectOk /\ call.fn = "fetch_responses_process" =>
        \A t \in DOMAIN call.topics :
            KnownTopicId(call.log, call.topics[t].topic_id) =>
                \A q \in DOMAIN call.topics[t].partitions :
                    /\ HasPartitionResponse(t, q)
                    /\ LET p == ret.resp.responses[t].partitions[q]
                           b == TopicPartition_serialize(p)
                           raw == RawBytes(call.log[batch_for_topic(call.log,
                                                     call.topics[t].topic_id)])
                       IN  /\ p.error_code = 0
                           /\ get_i16(b, 5) = 0
                           /\ p.record_batches = <<raw>>
                           /\ Drop(b, BeforeRecordBatches) = put_u8(Len(raw) + 1) \o raw \o <<0>>

(***************************************************************************)
(* C16  A Fetch response has top-level error_code 0 and echoes the         *)
(* request's session_id, and its responses mirror the request: one topic   *)
(* response per requested topic in request order with the same topic_id,   *)
(* each holding one partition response per requested partition; an empty   *)
(* topics list gives an empty responses list.  Stated as claimed, for both *)
(* handlers: FetchRequestV16::process answers the first topic only, with   *)
(* one partition.                                                          *)
(***************************************************************************)
C16_FetchMirrorsRequest ==
    DirectOk /\ call.fn \in FetchCalls =>
        /\ ret.resp.error_code = 0
        /\ get_i16(ret.resp.bytes, 10) = 0
        /\ ret.resp.session_id = call.session_id
        /\ SubSeq(ret.resp.bytes, 12, 15) = put_u32(call.session_id)
        /\ Len(ret.resp.responses) = Len(call.topics)
        /\ ret.resp.bytes[16] = Len(call.topics) + 1
        /\ \A t \in DOMAIN call.topics :
              /\ t \in DOMAIN ret.resp.responses
              /\ ret.resp.responses[t].topic_id = call.topics[t].topic_id
              /\ Len(ret.resp.responses[t].partitions) = Len(call.topics[t].partitions)

\* the same statement for logic/fetch_responses.rs process alone
C16_FetchResponsesOnly == call.fn = "fetch_responses_process" => C16_FetchMirrorsRequest

(***************************************************************************)
(* C17  When the 4-byte length prefix of a request decodes to a negative   *)
(* i32 the server treats it as a protocol error: it closes the connection  *)
(* without trying to read or allocate a body of that size and without      *)
(* writing a response.  Stated as claimed: handle_connection has no check  *)
(* of the sign, casts msg_size to usize and asks BytesMut::with_capacity   *)
(* for that many bytes, which panics.                                      *)
(***************************************************************************)
C17_NegativeSizeRejected ==
    msg_size < 0 =>
        /\ pc \in {"read_body", "err"}
        /\ Len(written) = Len(reads)

(***************************************************************************)
(* What a buffer encodes as a varint.                                      *)
(***************************************************************************)
\* the position of the first byte with the continuation bit clear, 0 if none
FirstClear(buf) ==
    IF \E i \in DOMAIN buf : buf[i] < 128
    THEN CHOOSE i \in DOMAIN buf : buf[i] < 128 /\ \A h \in 1..(i - 1) : buf[h] >= 128
    ELSE 0

\* the sum over the first k bytes of (byte & 0x7F) * 128^(position - 1)
RECURSIVE Base128(_, _)
Base128(buf, k) ==
    IF k = 0 THEN 0 ELSE Base128(buf, k - 1) + ((buf[k] % 128) * (128 ^ (k - 1)))

VarIntCalled == call.fn = "VarInt_deserialize"

(***************************************************************************)
(* C18  VarInt::deserialize returns the value of the base-128              *)
(* little-endian encoding it reads: for bytes b0..bk where only bk has its *)
(* top bit clear the result is the sum over i of (bi & 0x7F) * 128^i, for  *)
(* encodings of one, two, three and more bytes ([0x68] gives 104 and       *)
(* [0x96, 0x01] gives 150).  Stated as claimed, for encodings of up to     *)
(* four bytes: the loop shifts every byte after the first by 7 bits.       *)
(***************************************************************************)
C18_VarIntValue ==
    VarIntCalled /\ FirstClear(call.buf) \in 1..4 =>
        /\ ret.status = "Value"
        /\ ret.val = Base128(call.buf, FirstClear(call.buf))

\* the same statement for encodings of one and two bytes, the cases of
\* tests::varint_1_byte and tests::varint_2_bytes
C18_UpToTwoBytes ==
    VarIntCalled /\ FirstClear(call.buf) \in 1..2 =>
        /\ ret.status = "Value"
        /\ ret.val = Base128(call.buf, FirstClear(call.buf))

(***************************************************************************)
(* C19  Decoding a varint whose encoding is longer than 10 bytes (the      *)
(* first 10 bytes all have the continuation bit set) always fails; it      *)
(* never returns a value, whatever bytes follow in the buffer.  Stated as  *)
(* claimed: the loop runs while n_bytes <= MAX_BYTES, reads an eleventh    *)
(* byte and returns.                                                       *)
(***************************************************************************)
C19_LongVarIntFails ==
    (/\ VarIntCalled
     /\ Len(call.buf) >= 10
     /\ \A i \in 1..10 : call.buf[i] >= 128)
    => ret.status = "Panic"

(***************************************************************************)
(* C20  VarInt::deserialize fails, and returns no value, when the buffer   *)
(* is empty or when the buffer ends while the last byte read still has its *)
(* continuation bit set; when it succeeds it has consumed exactly the      *)
(* bytes up to and including the first byte with the continuation bit      *)
(* clear and leaves the following bytes unread.  Stated as claimed: after  *)
(* eleven bytes with the continuation bit set the loop returns a value.    *)
(***************************************************************************)
C20_VarIntConsumes ==
    VarIntCalled =>
        /\ call.buf = <<>> => ret.status = "Panic"
        /\ FirstClear(call.buf) = 0 => ret.status = "Panic"
        /\ ret.status = "Value" =>
              /\ FirstClear(call.buf) # 0
              /\ ret.rest = Drop(call.buf, FirstClear(call.buf))

\* the same statement for the buffers in which the encoding ends within
\* eleven bytes or the buffer does
C20_WithinElevenBytes ==
    VarIntCalled /\ (Len(call.buf) <= 11 \/ FirstClear(call.buf) \in 1..11) =>
        C20_VarIntConsumes

CompactStringCalled == call.fn = "CompactString_round_trip"

(***************************************************************************)
(* C21  Compact strings round-trip: for every string s of byte length      *)
(* 0..=254, CompactString::deserialize applied to                          *)
(* CompactString::serialize(s) returns s and consumes exactly the          *)
(* len(s)+1 bytes that were written; strings longer than 254 bytes are     *)
(* written with a multi-byte unsigned varint length, not a truncated       *)
(* single byte.  Stated as claimed: serialize writes the single byte       *)
(* (len + 1) mod 256 for every length, and deserialize reads the length as *)
(* a varint, so a length byte of 128 and more is taken as a continuation.  *)
(***************************************************************************)
C21_CompactStringRoundTrip ==
    CompactStringCalled =>
        /\ Len(call.s) <= 254 =>
              /\ call.serialized
              /\ Len(call.bytes) = Len(call.s) + 1
              /\ ret.status = "Value"
              /\ ret.string = call.s
              /\ ret.rest = call.trailing
        /\ Len(call.s) > 254 =>
              /\ call.serialized
              /\ call.bytes = UnsignedVarInt(Len(call.s) + 1) \o call.s

\* the same statement for the strings of up to 126 bytes, whose length byte
\* has its top bit clear
C21_UpTo126Bytes == CompactStringCalled /\ Len(call.s) <= 126 => C21_CompactStringRoundTrip

(***************************************************************************)
(* C22  For compact arrays, encoding an empty list yields the single byte  *)
(* 0x01, and decoding a length byte 0x00 (null) as well as 0x01 (empty)    *)
(* yields an empty list while consuming only that one byte; a length byte  *)
(* n+1 (a one-byte length, at most 127) makes the decoder call the element *)
(* decoder exactly n times: it returns n items, the first n elements of    *)
(* the buffer, and leaves what follows them unread.                        *)
(***************************************************************************)
C22_CompactArray ==
    /\ call.fn = "CompactArray_round_trip" =>
          /\ call.items = <<>> => call.bytes = <<1>>
          /\ ret.status = "Value" /\ ret.vec_u32 = call.items /\ ret.rest = call.trailing
    /\ call.fn = "CompactArray_deserialize" =>
          /\ call.len \in {0, 1} =>
                /\ ret.status = "Value"
                /\ ret.vec_string = <<>>
                /\ ret.rest = Tail(call.src)
          /\ call.len >= 2 /\ ret.status = "Value" => Len(ret.vec_string) = call.len - 1
          /\ call.len >= 2 /\ Len(call.elements) >= call.len - 1 =>
                /\ ret.status = "Value"
                /\ Len(ret.vec_string) = call.len - 1
                /\ \A k \in 1..(call.len - 1) : ret.vec_string[k] = Tail(call.elements[k])
                /\ ret.rest = Concat(SubSeq(call.elements, call.len, Len(call.elements)))
                                 \o call.trailing

\* the longest array has been decoded, with the byte of the next field
\* following it
C22_Witness ==
    /\ call.fn = "CompactArray_deserialize"
    /\ ret.status = "Value"
    /\ call.len = MaxArrayItems + 1 /\ Len(ret.vec_string) = MaxArrayItems
    /\ call.trailing = <<0>> /\ ret.rest = <<0>>

(***************************************************************************)
(* C23  Decoding a DescribeTopicPartitions request whose topics array      *)
(* holds k >= 1 elements, each a COMPACT_STRING name followed by a         *)
(* tag-buffer byte, yields exactly those k names in order, followed by the *)
(* correct response_partition_limit and cursor; the per-element tag-buffer *)
(* byte is never taken as the start of the next name or of                 *)
(* response_partition_limit.  Stated as claimed: the elements are decoded  *)
(* by CompactString::deserialize alone, which leaves the tag-buffer byte   *)
(* to whatever is read next.                                               *)
(***************************************************************************)
FromBytesCalled == call.fn = "DescribeTopicPartitionsRequestV0_from_bytes"

C23_TopicNamesDecoded ==
    FromBytesCalled /\ Len(call.request.topics) >= 1 =>
        /\ ret.status = "Value"
        /\ ret.request.topics = call.request.topics
        /\ ret.request.response_partition_limit = 1
        /\ ret.request.cursor = 255
        /\ ret.rest = <<>>

\* what the decoder does get right: the header, and the first name
C23_FirstNameOnly ==
    FromBytesCalled /\ Len(call.request.topics) >= 1 =>
        /\ ret.status = "Value"
        /\ ret.request.header.correlation_id = call.request.corr
        /\ ret.request.header.client_id = call.request.client_id
        /\ Len(ret.request.topics) = Len(call.request.topics)
        /\ ret.request.topics[1] = call.request.topics[1]

(***************************************************************************)
(* C24  The metadata-log reader advances its cursor by exactly             *)
(* batch_length + 12 bytes for every record batch it parses, so each batch *)
(* starts where the previous batch's declared length ends, and it stops    *)
(* without error exactly when no bytes remain.  Stated as claimed, for     *)
(* every file whose batches declare their true length: the reader never    *)
(* uses batch_length; it advances by what its record parser took, which    *)
(* leaves out the headers of a record and any byte that follows the last   *)
(* record of a batch.                                                      *)
(***************************************************************************)
FromFileCalled == call.fn = "RecordBatches_from_file"

\* the values of the records of the file, batch by batch
ValuesOf(log) == [i \in DOMAIN log |-> [j \in DOMAIN log[i] |-> log[i][j].value]]

\* the ways in which records of the file depart from the layout
DefectsOf(log) == {log[i][j].defect : <<i, j>> \in {p \in (DOMAIN log) \X (1..MaxFileRecords + 1) : p[2] \in DOMAIN log[p[1]]}}

\* the reader returned one batch per batch of the file, and took
\* batch_length + 12 bytes for each
ReadAsDeclared ==
    /\ ret.status = "Value"
    /\ ret.rest = <<>>
    /\ Len(ret.batches) = Len(call.log)
    /\ \A k \in DOMAIN ret.batches :
          /\ ret.batches[k].batch_length + 12 = Len(EncodeBatch(call.log[k]))
          /\ ret.batches[k].consumed = ret.batches[k].batch_length + 12

C24_CursorFollowsBatchLength ==
    FromFileCalled /\ DefectsOf(call.log) \cap ValueDefects = {} => ReadAsDeclared

\* the same statement for the files in which no record has headers and
\* every batch ends with its last record; there the records read are the
\* records of the file
C24_PlainRecordsOnly ==
    FromFileCalled /\ DefectsOf(call.log) \subseteq {"none"} =>
        /\ ReadAsDeclared
        /\ RecordsOf(ret.batches) = ValuesOf(call.log)

(***************************************************************************)
(* C25  When the metadata log holds a record value whose frame_version is  *)
(* not 1, whose record_type is not one of 2, 3 and 12, whose version is    *)
(* not the one supported for its type, or whose tagged-field count is not  *)
(* zero, the parsing of the log fails as a whole: RecordBatches::from_file *)
(* panics, and a request processed on that log gets no response entity;    *)
(* the panic ends the task that owns the connection, whose stream is       *)
(* dropped with it.  This holds wherever in the file the record stands,    *)
(* also after a batch that held the requested topic.                       *)
(***************************************************************************)
OnFileCalled ==
    call.fn \in {"RecordBatches_from_file", "topic_partitions_process_file",
                 "fetch_responses_process_file"}

C25_BadRecordValueFailsParsing ==
    OnFileCalled /\ DefectsOf(call.log) \cap ValueDefects # {} =>
        /\ ret.status = "Panic"
        /\ call.fn # "RecordBatches_from_file" =>
              ret.resp.kind = "none" /\ ret.resp.bytes = <<>> /\ ret.message = <<>>

\* the requested topic "a" stands in the first batch, a value with a
\* non-zero tagged-field count in the second, and the request got no response
C25_Witness ==
    /\ call.fn = "topic_partitions_process_file"
    /\ call.topics = <<<<97>>>>
    /\ Len(call.log) = 2
    /\ call.log[1] = <<[value |-> TopicValue(<<97>>, UuidOf(1)), defect |-> "none"]>>
    /\ Len(call.log[2]) = 1 /\ call.log[2][1].defect = "tagged"
    /\ ret.status = "Panic" /\ ret.resp.kind = "none"

(***************************************************************************)
(* C26  A request whose message is too short for the fields being decoded  *)
(* (fewer than 8 bytes of header, a string or array length that points     *)
(* past the end of the message, a NULLABLE_STRING length below -1) never   *)
(* makes a decoder read beyond the message: every read is checked against  *)
(* the bytes that remain and panics, so the request is rejected, no        *)
(* response is made for it, and the task that owns the connection ends.    *)
(***************************************************************************)
C26_ShortMessageRejected ==
    call.fn = "logic_process_short" =>
        /\ ret.status = "Panic"
        /\ ret.resp.kind = "none" /\ ret.resp.bytes = <<>> /\ ret.message = <<>>

\* a DescribeTopicPartitions request with client_id length -2, complete
\* otherwise, was rejected
C26_Witness ==
    /\ call.fn = "logic_process_short"
    /\ call.why = "client_id below -1"
    /\ get_i16(call.msg, 1) = 75 /\ get_i16(call.msg, 9) = -2
    /\ Len(call.msg) > 11
    /\ ret.status = "Panic" /\ ret.message = <<>>

(***************************************************************************)
(* C27  Connections are isolated: an I/O error or a malformed request on   *)
(* one connection ends only the task of that connection.  The step in      *)
(* which a task ends with an error or a panic changes nothing of any other *)
(* task and leaves main in its accept loop; and while main has not         *)
(* returned from a failed accept, main is in its accept loop, it can       *)
(* accept a connection whenever a slot is left, and every other running    *)
(* task whose connection is ready can run its next iteration.              *)
(***************************************************************************)
TaskFailed(c) == tasks[c].pc \in {"err", "panic"}

TaskFails(c) == tasks[c].pc = "run" /\ tasks'[c].pc \in {"err", "panic"}

OthersServed ==
    (\E c \in 1..MaxConnections : TaskFailed(c)) /\ main_pc = "accept" =>
        /\ (\E d \in 1..MaxConnections : tasks[d].pc = "free") => ENABLED MainAccept
        /\ \A d \in 1..MaxConnections :
              tasks[d].pc = "run" /\ Ready(tasks[d]) => ENABLED SpawnedTask(d)

OnlyThatTask ==
    \A c \in 1..MaxConnections :
        TaskFails(c) =>
            /\ main_pc = "accept" /\ main_pc' = "accept"
            /\ \A d \in 1..MaxConnections \ {c} : tasks'[d] = tasks[d]

C27_ConnectionsIsolated == []OthersServed /\ [][OnlyThatTask]_vars

\* task 1 has panicked on a short frame; after that task 2 was accepted and
\* its request answered
C27_Witness ==
    /\ main_pc = "accept"
    /\ tasks[1].pc = "panic"
    /\ tasks[2].pc = "run"
    /\ Len(tasks[2].written) = 1

(***************************************************************************)
(* C28  No metadata is kept from one request to the next: a                *)
(* DescribeTopicPartitions or Fetch response is computed from the contents *)
(* of the metadata log read while that request is handled.  When the log   *)
(* has changed between two requests for the same topics, the second        *)
(* response is the one the handler gives on the new contents alone: a      *)
(* topic it reports as known is in the new log, a topic that is not in the *)
(* new log is reported unknown even if the first response knew it, and     *)
(* every partition and record batch it carries comes from the new log.     *)
(***************************************************************************)
DescribedAgain == call.fn = "topic_partitions_process_again"

FetchedAgain == call.fn = "fetch_responses_process_again"

FromNewLogOnly(info) ==
    /\ info.error_code = 0 => InLog(call.log, info.name)
    /\ ~InLog(call.log, info.name) => info.error_code = 3 /\ info.partitions = <<>>
    /\ \A p \in DOMAIN info.partitions :
          \E j \in DOMAIN FlatLog(call.log) :
              /\ FlatLog(call.log)[j].type = "Partition"
              /\ info.partitions[p] = ClaimedPartitionInfo(FlatLog(call.log)[j])

FetchedFromNewLogOnly(topic) ==
    \A q \in DOMAIN topic.partitions :
        IF KnownTopicId(call.log, topic.topic_id)
        THEN /\ topic.partitions[q].error_code = 0
             /\ \A b \in DOMAIN topic.partitions[q].record_batches :
                   \E i \in DOMAIN call.log :
                       topic.partitions[q].record_batches[b] = RawBytes(call.log[i])
        ELSE /\ topic.partitions[q].error_code = UnknownTopicId
             /\ topic.partitions[q].record_batches = <<>>

C28_NothingCached ==
    /\ DescribedAgain =>
          /\ ret.status = "Ok"
          /\ ret.resp = topic_partitions_process(
                            [header |-> [correlation_id |-> call.corr],
                             topics |-> call.topics], call.log).resp
          /\ Len(ret.resp.topics) = Len(call.topics)
          /\ \A k \in DOMAIN ret.resp.topics : FromNewLogOnly(ret.resp.topics[k])
    /\ FetchedAgain =>
          /\ ret.status = "Ok"
          /\ ret.resp = fetch_responses_process(
                            [header |-> [correlation_id |-> call.corr],
                             session_id |-> call.session_id, topics |-> call.topics],
                            call.log).resp
          /\ Len(ret.resp.responses) = Len(call.topics)
          /\ \A k \in DOMAIN ret.resp.responses : FetchedFromNewLogOnly(ret.resp.responses[k])

\* the first response knew topic "a" with a partition; the log was emptied,
\* and the second response reports "a" unknown
C28_Witness ==
    /\ DescribedAgain
    /\ call.topics = <<<<97>>>>
    /\ call.before.resp.topics[1].error_code = 0
    /\ call.before.resp.topics[1].partitions # <<>>
    /\ call.log = <<>>
    /\ ret.resp.topics[1].error_code = 3

(***************************************************************************)
(* C29  The loop of handle_connection ends cleanly when it can no longer   *)
(* peek a request: when the peek at the top of an iteration fails, and     *)
(* when the client has closed the connection after complete                *)
(* request/response exchanges, the loop writes nothing more and returns    *)
(* Ok, not an error.  Stated as claimed: at end-of-file peek returns Ok(0), *)
(* the loop is entered, and read_exact of the size fails with `?`.         *)
(***************************************************************************)
\* a step of the loop from its top on a socket on which peek fails
PeekFails == pc = "peek" /\ ioError /\ pc' # pc

\* the client has closed, the socket is sound, and every request it sent
\* was a complete frame that was read and answered
ClosedAfterExchanges ==
    /\ clientClosed /\ ~ioError
    /\ stream = <<>>
    /\ requests # <<>>
    /\ Len(written) = Len(requests)
    /\ \A i \in DOMAIN requests : requests[i].shape = "frame"

C29_LoopEndsCleanly ==
    /\ [][PeekFails => pc' = "ok" /\ written' = written]_vars
    /\ [](ClosedAfterExchanges => pc \notin {"err", "panic"})

\* the same statement for the failing peek alone
C29_PeekFailureOnly == [][PeekFails => pc' = "ok" /\ written' = written]_vars

(***************************************************************************)
(* C30  In every Fetch response the partition_index of each partition      *)
(* response equals the partition id of the requested partition it answers: *)
(* the one at the same position of the same requested topic.  Stated as    *)
(* claimed, for FetchRequestV16::process and for process of                *)
(* fetch_responses.rs: both write partition_index 0 whatever was asked.    *)
(***************************************************************************)
C30_PartitionIndexEchoed ==
    DirectOk /\ call.fn \in FetchCalls =>
        \A t \in DOMAIN ret.resp.responses :
            \A q \in DOMAIN ret.resp.responses[t].partitions :
                ret.resp.responses[t].partitions[q].partition_index
                    = call.topics[t].partitions[q].partition

\* the same statement for the requests that ask for partition 0 only
C30_PartitionZeroOnly ==
    DirectOk /\ call.fn \in FetchCalls
             /\ (\A t \in DOMAIN call.topics : \A q \in DOMAIN call.topics[t].partitions :
                    call.topics[t].partitions[q].partition = 0) =>
        \A t \in DOMAIN ret.resp.responses :
            \A q \in DOMAIN ret.resp.responses[t].partitions :
                ret.resp.responses[t].partitions[q].partition_index
                    = call.topics[t].partitions[q].partition

====
